---- MODULE Spec2Model ----
(***************************************************************************)
(* Lexer and precedence-climbing parser of the interpreter front end.      *)
(* The lexer is a function of its cursor state; the parser is a machine    *)
(* with an explicit call stack, one action per basic block of its code.    *)
(***************************************************************************)
EXTENDS Integers, Sequences, FiniteSets, TLC

(***************************************************************************)
(* Characters.  A character is a one-character string; the '\0' sentinel   *)
(* of the lexer is the value NUL.                                          *)
(***************************************************************************)
NUL == "NUL"

Lower == {"a", "b", "c", "d", "e", "f", "g", "h", "i", "j", "k", "l", "m",
          "n", "o", "p", "q", "r", "s", "t", "u", "v", "w", "x", "y", "z"}

Upper == {"A", "Z"}

Digits == {"0", "1", "2", "3", "4", "5", "6", "7", "8", "9"}

\* char::is_whitespace on the characters of the model
IsWhitespace(c) == c \in {" ", "\t", "\n", "\r"}

\* char::is_alphabetic: every letter, the non-ASCII ones included
IsAlphabetic(c) == c \in Lower \cup Upper \cup {"é"}

\* the match arm 'a'..='z'|'A'..='Z'|'_'
IsIdentStart(c) == c \in Lower \cup Upper \cup {"_"}

\* char::is_digit(10) and the match arm '0'..='9'
IsDigit(c) == c \in Digits

(***************************************************************************)
(* Tokens.                                                                 *)
(***************************************************************************)
TokenType == {"Let", "Fn", "True", "False", "If", "Else", "Return",
              "Identifier", "Integer", "String",
              "Plus", "Increment", "Minus", "Decrement", "Asterisk", "Slash",
              "Question", "Percent", "Assign", "Bang", "Equal", "NotEqual",
              "LessThan", "GreaterThan", "LessThanOrEqual",
              "GreaterThanOrEqual",
              "Comma", "Semicolon", "Colon", "LeftParen", "RightParen",
              "LeftSquareBracket", "RightSquareBracket", "LeftCurlyBracket",
              "RightCurlyBracket", "Eof", "Illegal"}

Token(ttype, literal) == [ttype |-> ttype, literal |-> literal]

\* Option::None of an Option<Token>
None == [ttype |-> "None", literal |-> <<>>]

(***************************************************************************)
(* Lexer.                                                                  *)
(***************************************************************************)
\* read_char as a cursor that moves two places at a time
ReadCharSkipsOne(l) ==
    [l EXCEPT !.ch = IF l.read_position + 1 >= Len(l.input)
                     THEN NUL
                     ELSE l.input[l.read_position + 2],
              !.position = l.read_position + 1,
              !.read_position = l.read_position + 2]

\* Lexer::read_char
ReadChar(l) ==
    [l EXCEPT !.ch = IF l.read_position >= Len(l.input)
                     THEN NUL
                     ELSE l.input[l.read_position + 1],
              !.position = l.read_position,
              !.read_position = l.read_position + 1]

\* Lexer::peek
Peek(l) ==
    IF l.read_position >= Len(l.input) THEN NUL
    ELSE l.input[l.read_position + 1]

\* Lexer::new
NewLexer(input) ==
    ReadChar([input |-> input, position |-> 0, read_position |-> 0,
              ch |-> NUL])

\* the whitespace loop that opens Lexer::next
RECURSIVE SkipWhitespace(_)
SkipWhitespace(l) ==
    IF IsWhitespace(l.ch) THEN SkipWhitespace(ReadChar(l)) ELSE l

\* the identifier loop: the text collected and the lexer after it
RECURSIVE ReadIdentifier(_, _)
ReadIdentifier(l, ident) ==
    IF IsAlphabetic(l.ch) \/ l.ch = "_"
    THEN ReadIdentifier(ReadChar(l), Append(ident, l.ch))
    ELSE [text |-> ident, l |-> l]

\* the digit loop
RECURSIVE ReadNumber(_, _)
ReadNumber(l, number) ==
    IF IsDigit(l.ch)
    THEN ReadNumber(ReadChar(l), Append(number, l.ch))
    ELSE [text |-> number, l |-> l]

\* an unterminated string that ends the whole scan
UnterminatedEndsScan(l, string) ==
    [text |-> string,
     l |-> [l EXCEPT !.position = Len(l.input) + 1,
                     !.read_position = Len(l.input) + 2, !.ch = NUL],
     closed |-> FALSE]

\* `return Some(Token::new(TokenType::Illegal, string))` in the string
\* loop: the cursor stays on the '\0' or '\n'
Unterminated(l, string) == [text |-> string, l |-> l, closed |-> FALSE]

\* the string loop: closed is FALSE when '\0' or '\n' came before the quote
RECURSIVE ReadString(_, _)
ReadString(l, string) ==
    IF l.ch = "\""
    THEN [text |-> Append(string, l.ch), l |-> ReadChar(l), closed |-> TRUE]
    ELSE IF l.ch = NUL \/ l.ch = "\n"
         THEN Unterminated(l, string)
         ELSE ReadString(ReadChar(l), Append(string, l.ch))

\* the keyword table of the identifier arm
KeywordType(ident) ==
    CASE ident = <<"l", "e", "t">> -> "Let"
      [] ident = <<"f", "n">> -> "Fn"
      [] ident = <<"t", "r", "u", "e">> -> "True"
      [] ident = <<"f", "a", "l", "s", "e">> -> "False"
      [] ident = <<"i", "f">> -> "If"
      [] ident = <<"e", "l", "s", "e">> -> "Else"
      [] ident = <<"r", "e", "t", "u", "r", "n">> -> "Return"
      [] OTHER -> "Identifier"

\* a table in which every operator pairs with '='
TwoCharSecondIsEquals(c) == "="

\* the second character that turns a one-character operator into a
\* two-character one, and the two token kinds
TwoCharSecond(c) ==
    CASE c = "+" -> "+"
      [] c = "-" -> "-"
      [] c \in {"=", "!", "<", ">"} -> "="

TwoCharType(c) ==
    CASE c = "+" -> "Increment"
      [] c = "-" -> "Decrement"
      [] c = "=" -> "Equal"
      [] c = "!" -> "NotEqual"
      [] c = "<" -> "LessThanOrEqual"
      [] c = ">" -> "GreaterThanOrEqual"

\* the kind of a token that is one character long
OneCharType(c) ==
    CASE c = "+" -> "Plus"
      [] c = "-" -> "Minus"
      [] c = "*" -> "Asterisk"
      [] c = "/" -> "Slash"
      [] c = "?" -> "Question"
      [] c = "%" -> "Percent"
      [] c = "=" -> "Assign"
      [] c = "!" -> "Bang"
      [] c = "<" -> "LessThan"
      [] c = ">" -> "GreaterThan"
      [] c = "," -> "Comma"
      [] c = ";" -> "Semicolon"
      [] c = ":" -> "Colon"
      [] c = "(" -> "LeftParen"
      [] c = ")" -> "RightParen"
      [] c = "[" -> "LeftSquareBracket"
      [] c = "]" -> "RightSquareBracket"
      [] c = "{" -> "LeftCurlyBracket"
      [] c = "}" -> "RightCurlyBracket"
      [] c = NUL -> "Eof"
      [] OTHER -> "Illegal"

\* a sequence that ends at the sentinel, before any Eof token
SequenceEndedAtSentinel(l) == l.read_position > Len(l.input)

\* `if self.read_position > self.input.len() + 1 { return None; }`
SequenceEnded(l) == l.read_position > Len(l.input) + 1

\* Lexer::next: the token (None when the sequence has ended) and the lexer
\* after the call
LexerNext(l0) ==
    LET l == SkipWhitespace(l0) IN
    IF SequenceEnded(l)
    THEN [tok |-> None, l |-> l]
    ELSE IF l.ch \in {"+", "-", "=", "!", "<", ">"}
    THEN IF Peek(l) = TwoCharSecond(l.ch)
         THEN [tok |-> Token(TwoCharType(l.ch), <<l.ch, Peek(l)>>),
               l |-> ReadChar(ReadChar(l))]
         ELSE [tok |-> Token(OneCharType(l.ch), <<l.ch>>), l |-> ReadChar(l)]
    ELSE IF IsIdentStart(l.ch)
    THEN LET r == ReadIdentifier(l, <<>>) IN
         [tok |-> Token(KeywordType(r.text), r.text), l |-> r.l]
    ELSE IF IsDigit(l.ch)
    THEN LET r == ReadNumber(l, <<>>) IN
         [tok |-> Token("Integer", r.text), l |-> r.l]
    ELSE IF l.ch = "\""
    THEN LET r == ReadString(ReadChar(l), <<l.ch>>) IN
         [tok |-> Token(IF r.closed THEN "String" ELSE "Illegal", r.text),
          l |-> r.l]
    ELSE [tok |-> Token(OneCharType(l.ch), <<l.ch>>), l |-> ReadChar(l)]

(***************************************************************************)
(* AST nodes.                                                              *)
(***************************************************************************)
\* the absence of an expression (a local not yet assigned)
NoExpr == [kind |-> "None"]

\* ast::Identifier
Identifier(token) == [token |-> token, value |-> token.literal]

IdentifierExpr(token) ==
    [kind |-> "Identifier", token |-> token, value |-> token.literal]

IntegerLiteral(token, value) ==
    [kind |-> "IntegerLiteral", token |-> token, value |-> value]

StringLiteral(token) == [kind |-> "StringLiteral", token |-> token]

BooleanLiteral(token) == [kind |-> "BooleanLiteral", token |-> token]

Prefix(operator, right) ==
    [kind |-> "Prefix", operator |-> operator, right |-> right]

Infix(left, operator, right) ==
    [kind |-> "Infix", left |-> left, operator |-> operator, right |-> right]

Postfix(left, operator) ==
    [kind |-> "Postfix", left |-> left, operator |-> operator]

\* ast::Ternary, which no production of the parser builds
Ternary(condition, if_true, if_false) ==
    [kind |-> "Ternary", condition |-> condition, if_true |-> if_true,
     if_false |-> if_false]

LetStatement(token, name, value) ==
    [kind |-> "LetStatement", token |-> token, name |-> name, value |-> value]

ReturnStatement(token, return_value) ==
    [kind |-> "ReturnStatement", token |-> token,
     return_value |-> return_value]

ExpressionStatement(token, expression) ==
    [kind |-> "ExpressionStatement", token |-> token,
     expression |-> expression]

(***************************************************************************)
(* Rendering: the string() methods of the nodes.  A text is a sequence of  *)
(* characters.                                                             *)
(***************************************************************************)
\* Prefix::string, `format!("({}{})", operator.literal, right)`
PrefixString(operator, right) == <<"(">> \o operator.literal \o right \o <<")">>

\* an Infix::string that puts no spaces around the operator
InfixStringTight(left, operator, right) ==
    <<"(">> \o left \o operator.literal \o right \o <<")">>

\* Infix::string, `format!("({} {} {})", left, operator.literal, right)`
InfixString(left, operator, right) ==
    <<"(">> \o left \o <<" ">> \o operator.literal \o <<" ">> \o right
        \o <<")">>

\* Postfix::string, `format!("({}{})", left, operator.literal)`
PostfixString(left, operator) ==
    <<"(">> \o left \o operator.literal \o <<")">>

\* Ternary::string, `format!("{} ? {} : {}", ...)`
TernaryString(condition, if_true, if_false) ==
    condition \o <<" ", "?", " ">> \o if_true \o <<" ", ":", " ">> \o if_false

\* Expression::string
RECURSIVE ExpressionString(_)
ExpressionString(e) ==
    CASE e.kind = "IntegerLiteral" -> e.token.literal
      [] e.kind = "StringLiteral" -> e.token.literal
      [] e.kind = "BooleanLiteral" -> e.token.literal
      [] e.kind = "Identifier" -> e.value
      [] e.kind = "Prefix" ->
             PrefixString(e.operator, ExpressionString(e.right))
      [] e.kind = "Infix" ->
             InfixString(ExpressionString(e.left), e.operator,
                         ExpressionString(e.right))
      [] e.kind = "Postfix" ->
             PostfixString(ExpressionString(e.left), e.operator)
      [] e.kind = "Ternary" ->
             TernaryString(ExpressionString(e.condition),
                           ExpressionString(e.if_true),
                           ExpressionString(e.if_false))

\* Statement::string and the string() of the three statement structs
StatementString(st) ==
    CASE st.kind = "LetStatement" ->
             st.token.literal \o <<" ">> \o st.name.value \o <<" ", "=", " ">>
                 \o ExpressionString(st.value) \o <<";">>
      [] st.kind = "ReturnStatement" ->
             st.token.literal \o <<" ">> \o ExpressionString(st.return_value)
                 \o <<";">>
      [] st.kind = "ExpressionStatement" ->
             ExpressionString(st.expression) \o <<";">>

\* Program::string: the loop that pushes each statement's text onto s
RECURSIVE PushStatements(_, _)
PushStatements(sts, text) ==
    IF sts = <<>> THEN text
    ELSE PushStatements(Tail(sts), text \o StatementString(sts[1]))

ProgramString(program) == PushStatements(program.statements, <<>>)

(***************************************************************************)
(* str::parse::<i64> on the digit text of an Integer token.  The value is  *)
(* kept as its canonical decimal digits (no leading zero), which is one    *)
(* to one with the non-negative i64 values; it overflows above i64::MAX.   *)
(***************************************************************************)
I64MaxDigits == <<"9", "2", "2", "3", "3", "7", "2", "0", "3", "6", "8", "5",
                  "4", "7", "7", "5", "8", "0", "7">>

DigitValue(c) ==
    CASE c = "0" -> 0 [] c = "1" -> 1 [] c = "2" -> 2 [] c = "3" -> 3
      [] c = "4" -> 4 [] c = "5" -> 5 [] c = "6" -> 6 [] c = "7" -> 7
      [] c = "8" -> 8 [] c = "9" -> 9

RECURSIVE StripLeadingZeros(_)
StripLeadingZeros(d) ==
    IF Len(d) > 1 /\ d[1] = "0" THEN StripLeadingZeros(Tail(d)) ELSE d

\* a <= b for digit texts of the same length
RECURSIVE DigitsLeq(_, _)
DigitsLeq(a, b) ==
    IF a = <<>> THEN TRUE
    ELSE IF DigitValue(a[1]) < DigitValue(b[1]) THEN TRUE
    ELSE IF DigitValue(a[1]) > DigitValue(b[1]) THEN FALSE
    ELSE DigitsLeq(Tail(a), Tail(b))

ParseI64(literal) ==
    LET d == StripLeadingZeros(literal)
        fits == \/ Len(d) < Len(I64MaxDigits)
                \/ Len(d) = Len(I64MaxDigits) /\ DigitsLeq(d, I64MaxDigits)
    IN [ok |-> literal # <<>> /\ fits, value |-> d]

(***************************************************************************)
(* Parser: precedence table and token classes.                             *)
(***************************************************************************)
\* enum Precedence, in declaration order
Lowest == 0
PrecTernary == 1
PrecEquals == 2
PrecLessGreater == 3
PrecSum == 4
PrecProduct == 5
PrecPrefix == 6
PrecCall == 7
PrecIndex == 8

\* precedence_for_op with the Sum and Product levels exchanged
precedence_sum_above_product(op) ==
    CASE op = "Question" -> PrecTernary
      [] op \in {"Equal", "NotEqual"} -> PrecEquals
      [] op \in {"LessThan", "GreaterThan", "LessThanOrEqual",
                 "GreaterThanOrEqual"} -> PrecLessGreater
      [] op \in {"Plus", "Minus"} -> PrecProduct
      [] op \in {"Asterisk", "Slash", "Percent"} -> PrecSum
      [] op = "LeftParen" -> PrecCall
      [] op = "LeftSquareBracket" -> PrecIndex
      [] OTHER -> Lowest

precedence_for_op(op) ==
    CASE op = "Question" -> PrecTernary
      [] op \in {"Equal", "NotEqual"} -> PrecEquals
      [] op \in {"LessThan", "GreaterThan", "LessThanOrEqual",
                 "GreaterThanOrEqual"} -> PrecLessGreater
      [] op \in {"Plus", "Minus"} -> PrecSum
      [] op \in {"Asterisk", "Slash", "Percent"} -> PrecProduct
      [] op = "LeftParen" -> PrecCall
      [] op = "LeftSquareBracket" -> PrecIndex
      [] OTHER -> Lowest

\* is_infix_op as a grammar in which `?` is a binary operator
is_infix_op_with_question(op) ==
    op \in {"Plus", "Minus", "Asterisk", "Slash", "Percent", "Equal",
            "NotEqual", "LessThan", "GreaterThan", "LessThanOrEqual",
            "GreaterThanOrEqual", "Question"}

is_infix_op(op) ==
    op \in {"Plus", "Minus", "Asterisk", "Slash", "Percent", "Equal",
            "NotEqual", "LessThan", "GreaterThan", "LessThanOrEqual",
            "GreaterThanOrEqual"}

\* is_postfix_op as a grammar with a postfix `!`
is_postfix_op_with_bang(op) == op \in {"Increment", "Decrement", "Bang"}

is_postfix_op(op) == op \in {"Increment", "Decrement"}

\* is_prefix_op as a grammar with a unary plus
is_prefix_op_with_plus(op) ==
    op \in {"Bang", "Minus", "Increment", "Decrement", "Plus"}

\* the arm of parse_expression's match that starts a prefix expression
is_prefix_op(op) == op \in {"Bang", "Minus", "Increment", "Decrement"}

\* prefix_takes_postfix as a grammar that folds after every prefix operator
prefix_takes_postfix_always(op) ==
    op \in {"Bang", "Minus", "Increment", "Decrement"}

\* the prefix operators whose result parse_expression may wrap in a Postfix
prefix_takes_postfix(op) == op \in {"Minus", "Increment", "Decrement"}

(***************************************************************************)
(* Parser state.                                                           *)
(***************************************************************************)
VARIABLES
    p,           \* struct Parser: the lexer l, cur_token and peek_token
    stack,       \* the call stack of parse_program, innermost frame last
    ret,         \* the value the last returning production handed back
    statements,  \* the local vector of parse_program
    status,      \* "running", or how the call ended: "ok", "err", "panic"
    result,      \* what parse_program returned
    pulled,      \* how many times next_token has run
    lexer,       \* the Lexer the read-eval-print loop iterates over
    tokens,      \* the tokens that loop has been handed, in order
    nones,       \* how many times Lexer::next has answered None
    rendered,    \* the text Program::string returned, once it has run
    renders      \* how many times Program::string has run

parservars == <<p, stack, ret, statements, status, result, pulled>>

replvars == <<lexer, tokens, nones>>

stringvars == <<rendered, renders>>

vars == <<parservars, replvars, stringvars>>

\* Parser::next_token
next_token(q) ==
    LET r == LexerNext(q.l) IN
    [l |-> r.l, cur_token |-> q.peek_token, peek_token |-> r.tok]

\* Parser::new: the two Illegal placeholders, then two next_token calls
NewParser(input) ==
    next_token(next_token([l |-> NewLexer(input),
                           cur_token |-> Token("Illegal", <<>>),
                           peek_token |-> Token("Illegal", <<>>)]))

current_token_is(q, t) ==
    IF q.cur_token = None THEN FALSE ELSE q.cur_token.ttype = t

peek_token_is(q, t) ==
    IF q.peek_token = None THEN FALSE ELSE q.peek_token.ttype = t

\* expect_peek as a parser that takes whatever token comes
expect_peek_any(q, t) ==
    [ok |-> TRUE, p |-> next_token(q), n |-> 1, msg |-> <<>>]

\* expect_peek as a parser that steps over the token it rejects
expect_peek_steps_over(q, t) ==
    IF peek_token_is(q, t)
    THEN [ok |-> TRUE, p |-> next_token(q), n |-> 1, msg |-> <<>>]
    ELSE [ok |-> FALSE, p |-> next_token(q), n |-> 1,
          msg |-> <<"expected next token to be", t, "got", q.peek_token>>]

\* Parser::expect_peek: whether it succeeded, the parser after it, how many
\* tokens it pulled and its error message
expect_peek(q, t) ==
    IF peek_token_is(q, t)
    THEN [ok |-> TRUE, p |-> next_token(q), n |-> 1, msg |-> <<>>]
    ELSE [ok |-> FALSE, p |-> q, n |-> 0,
          msg |-> <<"expected next token to be", t, "got", q.peek_token>>]

\* skip_semicolon as a parser that leaves the `;` where it is
skip_semicolon_never(q) == [p |-> q, n |-> 0]

\* the `if self.peek_token_is(Semicolon) { self.next_token(); }` that ends
\* the three statement productions
skip_semicolon(q) ==
    IF peek_token_is(q, "Semicolon")
    THEN [p |-> next_token(q), n |-> 1]
    ELSE [p |-> q, n |-> 0]

\* the condition of the while loop of parse_program
program_loop_continues(q) ==
    q.cur_token # None /\ ~current_token_is(q, "Eof")

\* Parser::peek_precedence, the peek token being present
peek_precedence(q) == precedence_for_op(q.peek_token.ttype)

\* current_precedence as the level just below the operator's own
current_precedence_below(q) == precedence_for_op(q.cur_token.ttype) - 1

\* Parser::current_precedence, the current token being present
current_precedence(q) == precedence_for_op(q.cur_token.ttype)

\* the condition of the while loop of parse_expression, the peek token
\* being present when peek_precedence is reached
infix_loop_continues(q, precedence) ==
    /\ ~peek_token_is(q, "Semicolon")
    /\ precedence < peek_precedence(q)

\* the production parse_statement dispatches to
statement_production(ttype) ==
    CASE ttype = "Let" -> "parse_let_statement"
      [] ttype = "Return" -> "parse_return_statement"
      [] OTHER -> "parse_expression_statement"

(***************************************************************************)
(* Call stack.                                                             *)
(***************************************************************************)
Frame(fn, precedence, left) ==
    [fn |-> fn, pc |-> "start", precedence |-> precedence, token |-> None,
     name |-> None, left |-> left, current |-> None]

Top == stack[Len(stack)]

At(fn, pc) ==
    /\ status = "running"
    /\ stack # <<>>
    /\ Top.fn = fn
    /\ Top.pc = pc

\* the caller moves to its next block and the callee starts
Call(caller, callee) ==
    stack' = Append(Append(SubSeq(stack, 1, Len(stack) - 1), caller), callee)

\* the running frame moves to another block
Goto(frame) ==
    stack' = Append(SubSeq(stack, 1, Len(stack) - 1), frame)

\* the running frame returns value to its caller
Return(value) ==
    /\ stack' = SubSeq(stack, 1, Len(stack) - 1)
    /\ ret' = value

\* Fail as a parser that swallowed the error and returned what it had parsed
FailReturnsParsed(msg) ==
    /\ status' = "ok"
    /\ result' = [kind |-> "Ok", program |-> [statements |-> statements]]
    /\ stack' = <<>>
    /\ statements' = statements
    /\ ret' = NoExpr

\* `return Err(..)` and its propagation by `?` through every caller up to
\* parse_program, which drops its locals
Fail(msg) ==
    /\ status' = "err"
    /\ result' = [kind |-> "Err", message |-> msg]
    /\ stack' = <<>>
    /\ statements' = <<>>
    /\ ret' = NoExpr

\* a panicking unwrap: the call unwinds without returning
Panic(msg) ==
    /\ status' = "panic"
    /\ result' = [kind |-> "Panic", message |-> msg]
    /\ stack' = <<>>
    /\ statements' = <<>>
    /\ ret' = NoExpr

NotReturned == [kind |-> "None"]

\* Program::string has not been called
NotRendered == [kind |-> "None"]

\* Parser::parse_postfix_expression
parse_postfix_expression(q, left) == Postfix(left, q.cur_token)

\* fold_postfix as a parser that leaves the postfix operator to its caller
fold_postfix_left_to_caller(q, left) == [p |-> q, n |-> 0, left |-> left]

\* the `if is_postfix_op(peek) { next_token(); left = parse_postfix(left) }`
\* of parse_expression
fold_postfix(q, left) ==
    IF is_postfix_op(q.peek_token.ttype)
    THEN LET q1 == next_token(q) IN
         [p |-> q1, n |-> 1, left |-> parse_postfix_expression(q1, left)]
    ELSE [p |-> q, n |-> 0, left |-> left]

(***************************************************************************)
(* parse_program and the statement productions.                            *)
(***************************************************************************)
\* the loop test of parse_program, then either `return Ok(Program{..})` or
\* the dispatch of parse_statement
ParseProgramLoop ==
    /\ At("parse_program", "start")
    /\ UNCHANGED <<replvars, stringvars>>
    /\ IF program_loop_continues(p)
       THEN /\ Call([Top EXCEPT !.pc = "push"],
                    Frame(statement_production(p.cur_token.ttype), Lowest,
                          NoExpr))
            /\ UNCHANGED <<p, ret, statements, status, result, pulled>>
       ELSE /\ status' = "ok"
            /\ result' = [kind |-> "Ok",
                          program |-> [statements |-> statements]]
            /\ stack' = <<>>
            /\ UNCHANGED <<p, ret, statements, pulled>>

\* `statements.push(stmt); self.next_token();`
ParseProgramPush ==
    /\ At("parse_program", "push")
    /\ UNCHANGED <<replvars, stringvars>>
    /\ statements' = Append(statements, ret)
    /\ p' = next_token(p)
    /\ pulled' = pulled + 1
    /\ Goto([Top EXCEPT !.pc = "start"])
    /\ UNCHANGED <<ret, status, result>>

\* parse_let_statement: `self.expect_peek(TokenType::Identifier)?` and the
\* name it reads
ParseLetStatement ==
    /\ At("parse_let_statement", "start")
    /\ UNCHANGED <<replvars, stringvars>>
    /\ LET e == expect_peek(p, "Identifier") IN
       /\ p' = e.p
       /\ pulled' = pulled + e.n
       /\ IF e.ok
          THEN /\ Goto([Top EXCEPT !.pc = "assign", !.token = p.cur_token,
                                   !.name = Identifier(e.p.cur_token)])
               /\ UNCHANGED <<ret, statements, status, result>>
          ELSE Fail(e.msg)

\* parse_let_statement: `self.expect_peek(TokenType::Assign)?`, next_token
\* and the call of parse_expression
ParseLetStatementAssign ==
    /\ At("parse_let_statement", "assign")
    /\ UNCHANGED <<replvars, stringvars>>
    /\ LET e == expect_peek(p, "Assign") IN
       IF e.ok
       THEN /\ p' = next_token(e.p)
            /\ pulled' = pulled + e.n + 1
            /\ Call([Top EXCEPT !.pc = "value"],
                    Frame("parse_expression", Lowest, NoExpr))
            /\ UNCHANGED <<ret, statements, status, result>>
       ELSE /\ p' = e.p
            /\ pulled' = pulled + e.n
            /\ Fail(e.msg)

\* parse_let_statement after parse_expression returned Ok
ParseLetStatementValue ==
    /\ At("parse_let_statement", "value")
    /\ UNCHANGED <<replvars, stringvars>>
    /\ LET s == skip_semicolon(p) IN
       /\ p' = s.p
       /\ pulled' = pulled + s.n
       /\ Return(LetStatement(Top.token, Top.name, ret))
    /\ UNCHANGED <<statements, status, result>>

\* parse_return_statement up to its call of parse_expression
ParseReturnStatement ==
    /\ At("parse_return_statement", "start")
    /\ UNCHANGED <<replvars, stringvars>>
    /\ Call([Top EXCEPT !.pc = "value", !.token = p.cur_token],
            Frame("parse_expression", Lowest, NoExpr))
    /\ p' = next_token(p)
    /\ pulled' = pulled + 1
    /\ UNCHANGED <<ret, statements, status, result>>

ParseReturnStatementValue ==
    /\ At("parse_return_statement", "value")
    /\ UNCHANGED <<replvars, stringvars>>
    /\ LET s == skip_semicolon(p) IN
       /\ p' = s.p
       /\ pulled' = pulled + s.n
       /\ Return(ReturnStatement(Top.token, ret))
    /\ UNCHANGED <<statements, status, result>>

\* parse_expression_statement up to its call of parse_expression
ParseExpressionStatement ==
    /\ At("parse_expression_statement", "start")
    /\ UNCHANGED <<replvars, stringvars>>
    /\ Call([Top EXCEPT !.pc = "value", !.token = p.cur_token],
            Frame("parse_expression", Lowest, NoExpr))
    /\ UNCHANGED <<p, ret, statements, status, result, pulled>>

ParseExpressionStatementValue ==
    /\ At("parse_expression_statement", "value")
    /\ UNCHANGED <<replvars, stringvars>>
    /\ LET s == skip_semicolon(p) IN
       /\ p' = s.p
       /\ pulled' = pulled + s.n
       /\ Return(ExpressionStatement(Top.token, ret))
    /\ UNCHANGED <<statements, status, result>>

(***************************************************************************)
(* parse_expression and the operator productions.                          *)
(***************************************************************************)
\* an Identifier or Integer primary with its optional postfix operator
PrimaryWithPostfix(primary) ==
    IF p.peek_token = None
    THEN /\ Panic(<<"unwrap of peek_token in parse_expression">>)
         /\ UNCHANGED <<p, pulled>>
    ELSE LET f == fold_postfix(p, primary) IN
         /\ Goto([Top EXCEPT !.pc = "loop", !.current = p.cur_token,
                             !.left = f.left])
         /\ p' = f.p
         /\ pulled' = pulled + f.n
         /\ UNCHANGED <<ret, statements, status, result>>

\* a String or boolean primary
Primary(primary) ==
    /\ Goto([Top EXCEPT !.pc = "loop", !.current = p.cur_token,
                        !.left = primary])
    /\ UNCHANGED <<p, ret, statements, status, result, pulled>>

\* the match on the current token that opens parse_expression
ParseExpression ==
    /\ At("parse_expression", "start")
    /\ UNCHANGED <<replvars, stringvars>>
    /\ LET current == p.cur_token IN
       IF current = None
       THEN /\ Panic(<<"unwrap of cur_token in parse_expression">>)
            /\ UNCHANGED <<p, pulled>>
       ELSE IF current.ttype = "Identifier"
       THEN PrimaryWithPostfix(IdentifierExpr(current))
       ELSE IF current.ttype = "Integer"
       THEN IF ParseI64(current.literal).ok
            THEN PrimaryWithPostfix(
                     IntegerLiteral(current, ParseI64(current.literal).value))
            ELSE /\ Panic(<<"unwrap of parse::<i64>", current.literal>>)
                 /\ UNCHANGED <<p, pulled>>
       ELSE IF current.ttype = "String"
       THEN Primary(StringLiteral(current))
       ELSE IF current.ttype \in {"True", "False"}
       THEN Primary(BooleanLiteral(current))
       ELSE IF is_prefix_op(current.ttype)
       THEN /\ Call([Top EXCEPT !.pc = "prefix", !.current = current],
                    Frame("parse_prefix_expression", Lowest, NoExpr))
            /\ UNCHANGED <<p, ret, statements, status, result, pulled>>
       ELSE /\ Fail(<<"parse_expression() not implemented for", current>>)
            /\ UNCHANGED <<p, pulled>>

\* parse_expression after parse_prefix_expression returned Ok
ParseExpressionPrefix ==
    /\ At("parse_expression", "prefix")
    /\ UNCHANGED <<replvars, stringvars>>
    /\ IF prefix_takes_postfix(Top.current.ttype)
       THEN IF p.peek_token = None
            THEN /\ Panic(<<"unwrap of peek_token in parse_expression">>)
                 /\ UNCHANGED <<p, pulled>>
            ELSE LET f == fold_postfix(p, ret) IN
                 /\ Goto([Top EXCEPT !.pc = "loop", !.left = f.left])
                 /\ p' = f.p
                 /\ pulled' = pulled + f.n
                 /\ UNCHANGED <<ret, statements, status, result>>
       ELSE /\ Goto([Top EXCEPT !.pc = "loop", !.left = ret])
            /\ UNCHANGED <<p, ret, statements, status, result, pulled>>

\* the test of the infix loop, then either the loop body or `return Ok(left)`
ParseExpressionLoop ==
    /\ At("parse_expression", "loop")
    /\ UNCHANGED <<replvars, stringvars>>
    /\ IF ~peek_token_is(p, "Semicolon") /\ p.peek_token = None
       THEN /\ Panic(<<"unwrap of peek_token in peek_precedence">>)
            /\ UNCHANGED <<p, pulled>>
       ELSE IF infix_loop_continues(p, Top.precedence)
       THEN /\ Goto([Top EXCEPT !.pc = "body"])
            /\ UNCHANGED <<p, ret, statements, status, result, pulled>>
       ELSE /\ Return(Top.left)
            /\ UNCHANGED <<p, statements, status, result, pulled>>

\* the body of the infix loop
ParseExpressionBody ==
    /\ At("parse_expression", "body")
    /\ UNCHANGED <<replvars, stringvars>>
    /\ IF is_infix_op(p.peek_token.ttype)
       THEN /\ Call([Top EXCEPT !.pc = "infix"],
                    Frame("parse_infix_expression", Lowest, Top.left))
            /\ p' = next_token(p)
            /\ pulled' = pulled + 1
            /\ UNCHANGED <<ret, statements, status, result>>
       ELSE /\ Goto([Top EXCEPT !.pc = "loop"])
            /\ UNCHANGED <<p, ret, statements, status, result, pulled>>

\* `left = self.parse_infix_expression(left)?` once the call returned Ok
ParseExpressionInfix ==
    /\ At("parse_expression", "infix")
    /\ UNCHANGED <<replvars, stringvars>>
    /\ Goto([Top EXCEPT !.pc = "loop", !.left = ret])
    /\ UNCHANGED <<p, ret, statements, status, result, pulled>>

\* prefix_on_string as a parser without the restriction
prefix_on_string_allowed(q) == FALSE

\* the test that opens parse_prefix_expression: "Cannot perform prefix
\* operations on a string"
prefix_on_string(q) == q.peek_token.ttype = "String"

\* parse_prefix_expression up to its call of parse_expression
ParsePrefixExpression ==
    /\ At("parse_prefix_expression", "start")
    /\ UNCHANGED <<replvars, stringvars>>
    /\ IF p.peek_token = None
       THEN /\ Panic(<<"unwrap of peek_token in parse_prefix_expression">>)
            /\ UNCHANGED <<p, pulled>>
       ELSE IF prefix_on_string(p)
       THEN /\ Fail(<<"parse_prefix_expression() not implemented for",
                      p.cur_token>>)
            /\ UNCHANGED <<p, pulled>>
       ELSE /\ Call([Top EXCEPT !.pc = "right", !.token = p.cur_token],
                    Frame("parse_expression", PrecPrefix, NoExpr))
            /\ p' = next_token(p)
            /\ pulled' = pulled + 1
            /\ UNCHANGED <<ret, statements, status, result>>

ParsePrefixExpressionRight ==
    /\ At("parse_prefix_expression", "right")
    /\ UNCHANGED <<replvars, stringvars>>
    /\ Return(Prefix(Top.token, ret))
    /\ UNCHANGED <<p, statements, status, result, pulled>>

\* parse_infix_expression up to its call of parse_expression
ParseInfixExpression ==
    /\ At("parse_infix_expression", "start")
    /\ UNCHANGED <<replvars, stringvars>>
    /\ Call([Top EXCEPT !.pc = "right", !.token = p.cur_token,
                        !.precedence = current_precedence(p)],
            Frame("parse_expression", current_precedence(p), NoExpr))
    /\ p' = next_token(p)
    /\ pulled' = pulled + 1
    /\ UNCHANGED <<ret, statements, status, result>>

ParseInfixExpressionRight ==
    /\ At("parse_infix_expression", "right")
    /\ UNCHANGED <<replvars, stringvars>>
    /\ Return(Infix(Top.left, Top.token, ret))
    /\ UNCHANGED <<p, statements, status, result, pulled>>

MaxRenders == 2

\* a call of Program::string on the Program parse_program returned
RenderProgram ==
    /\ status = "ok"
    /\ renders < MaxRenders
    /\ rendered' = [kind |-> "Text", text |-> ProgramString(result.program)]
    /\ renders' = renders + 1
    /\ UNCHANGED <<parservars, replvars>>

Next ==
    \/ ParseProgramLoop
    \/ ParseProgramPush
    \/ ParseLetStatement
    \/ ParseLetStatementAssign
    \/ ParseLetStatementValue
    \/ ParseReturnStatement
    \/ ParseReturnStatementValue
    \/ ParseExpressionStatement
    \/ ParseExpressionStatementValue
    \/ ParseExpression
    \/ ParseExpressionPrefix
    \/ ParseExpressionLoop
    \/ ParseExpressionBody
    \/ ParseExpressionInfix
    \/ ParsePrefixExpression
    \/ ParsePrefixExpressionRight
    \/ ParseInfixExpression
    \/ ParseInfixExpressionRight
    \/ RenderProgram

(***************************************************************************)
(* Source texts.  A source is a sequence of words joined by single spaces; *)
(* the lexer turns it back into tokens.                                    *)
(***************************************************************************)
MaxWords == 3
MaxChain == 4
MaxStatements == 2

RECURSIVE Join(_)
Join(ws) ==
    IF ws = <<>> THEN <<>>
    ELSE IF Len(ws) = 1 THEN ws[1]
    ELSE ws[1] \o <<" ">> \o Join(Tail(ws))

RECURSIVE Flatten(_)
Flatten(ss) == IF ss = <<>> THEN <<>> ELSE ss[1] \o Flatten(Tail(ss))

SeqsUpTo(S, n) == UNION {[1..k -> S] : k \in 0..n}

WLet == <<"l", "e", "t">>
WReturn == <<"r", "e", "t", "u", "r", "n">>
WTrue == <<"t", "r", "u", "e">>
WString == <<"\"", "s", "\"">>
\* i64::MAX + 1
WTooBig == <<"9", "2", "2", "3", "3", "7", "2", "0", "3", "6", "8", "5",
             "4", "7", "7", "5", "8", "0", "8">>

InfixWords == {<<"+">>, <<"-">>, <<"*">>, <<"/">>, <<"%">>, <<"=", "=">>,
               <<"!", "=">>, <<"<">>, <<">">>, <<"<", "=">>, <<">", "=">>}

PrefixWords == {<<"!">>, <<"-">>, <<"+", "+">>, <<"-", "-">>}

PostfixWords == {<<"+", "+">>, <<"-", "-">>}

OperandWords == {<<"a">>, <<"7">>, WString, WTrue}

\* every sequence of at most MaxWords of these words
Words == {<<"a">>, <<"7">>, WString, WTrue, <<"!">>, <<"-">>, <<"+", "+">>,
          <<"+">>, <<";">>, WLet, WReturn, <<"=">>, <<"?">>, WTooBig}

AnySources == {Join(ws) : ws \in SeqsUpTo(Words, MaxWords)}

\* a token that starts no expression where an expression is due: alone,
\* under a prefix operator, after `return` and after an infix operator
OtherWords ==
    {<<"+">>, <<"*">>, <<"/">>, <<"%">>, <<"=", "=">>, <<"!", "=">>, <<"<">>,
     <<">">>, <<"<", "=">>, <<">", "=">>, <<"=">>, <<"?">>, <<";">>, <<"(">>,
     <<")">>, <<"[">>, <<"@">>}

OtherSources ==
    UNION {{Join(<<x>>), Join(<<<<"-">>, x>>), Join(<<WReturn, x>>),
            Join(<<<<"a">>, <<"*">>, x>>), Join(<<<<"a">>, x>>)} :
               x \in OtherWords}

\* operand op operand op operand, each operand any primary
TripleSources ==
    {Join(<<a, op1, b, op2, c>>) :
        a \in OperandWords, b \in {<<"b">>, <<"7">>}, c \in {<<"c">>, WString},
        op1 \in InfixWords, op2 \in InfixWords}

\* a prefix operator on the first operand of an infix expression
PrefixSources ==
    {Join(<<pre, a, op, b>>) :
        pre \in PrefixWords, a \in OperandWords \ {WString},
        op \in InfixWords, b \in {<<"b">>}}

\* chains of at most MaxChain operands joined by operators of one
\* precedence level
LevelWords == {{<<"=", "=">>, <<"!", "=">>},
               {<<"<">>, <<">">>, <<"<", "=">>, <<">", "=">>},
               {<<"+">>, <<"-">>},
               {<<"*">>, <<"/">>, <<"%">>}}

ChainOf(ops) ==
    Join(<<<<"a">>>> \o Flatten([i \in 1..Len(ops) |-> <<ops[i], <<"b">>>>]))

ChainSources ==
    UNION {{ChainOf(ops) : ops \in [1..k -> level]} :
              k \in 1..(MaxChain - 1), level \in LevelWords}

\* a postfix operator after the first, the middle or the last primary of an
\* infix chain, the primary possibly under a prefix operator
PostfixUnits ==
    {<<x, post>> : x \in {<<"a">>, <<"7">>}, post \in PostfixWords}
    \cup {<<pre, x, post>> : pre \in {<<"!">>, <<"-">>}, x \in {<<"a">>},
                             post \in PostfixWords}

PostfixSources ==
    UNION {{Join(u \o <<op, <<"b">>>>),
            Join(<<<<"b">>, op>> \o u),
            Join(<<<<"b">>, op>> \o u \o <<op2, <<"c">>>>)} :
               u \in PostfixUnits, op \in {<<"+">>, <<"*">>, <<"=", "=">>},
               op2 \in {<<"+">>, <<"*">>, <<"<">>}}

\* at most MaxStatements statements, each with or without its `;`
StatementWords ==
    {<<<<"a">>>>, <<<<"7">>, <<"+">>, <<"a">>>>, <<<<"-">>, <<"a">>>>,
     <<<<"+", "+">>, <<"a">>>>, <<WString>>,
     <<WLet, <<"x">>, <<"=">>, <<"7">>>>,
     <<WLet, <<"x">>, <<"=">>, <<"a">>, <<"*">>, <<"b">>>>,
     <<WReturn, <<"a">>>>, <<WReturn, <<"a">>, <<"-">>, <<"7">>>>,
     <<WLet, <<"x">>, <<"a">>>>}

StatementForms ==
    StatementWords \cup {s \o <<<<";">>>> : s \in StatementWords}

StatementSources ==
    {Join(Flatten(ss)) : ss \in SeqsUpTo(StatementForms, MaxStatements)}

\* at most MaxStatements statements that parse, each closed by `;`, then a
\* statement that does not parse, then possibly more text
ClosedStatements ==
    {<<<<"a">>, <<";">>>>, <<<<"-">>, <<"a">>, <<";">>>>,
     <<WLet, <<"x">>, <<"=">>, <<"7">>, <<";">>>>,
     <<WReturn, <<"a">>, <<"-">>, <<"7">>, <<";">>>>}

FailingStatements ==
    {<<WLet, <<"7">>, <<"=">>, <<"a">>>>, <<WLet, <<"x">>, <<"a">>>>,
     <<WLet, <<"x">>, <<"=">>, <<")">>>>, <<<<"+">>>>, <<<<"!">>, WString>>}

FailFastSources ==
    {Join(Flatten(good) \o bad \o later) :
        good \in SeqsUpTo(ClosedStatements, MaxStatements),
        bad \in FailingStatements,
        later \in {<<>>, <<<<"a">>>>, <<<<";">>, WLet, <<"y">>, <<"=">>, <<"a">>>>}}

\* let statements over expressions of three operands
LetSources ==
    {Join(<<WLet, <<"x">>, <<"=">>, <<"a">>, op1, <<"7">>, op2, <<"c">>>>
          \o semi) :
        op1 \in {<<"+">>, <<"*">>, <<"=", "=">>},
        op2 \in {<<"+">>, <<"*">>, <<"<">>},
        semi \in {<<>>, <<<<";">>>>}}

\* a prefix operator, an operand, one or two postfix operators, and
\* possibly one more operand
PrefixPostfixSources ==
    {Join(<<pre, x>> \o posts \o rest) :
        pre \in PrefixWords, x \in {<<"a">>, <<"7">>, WTrue},
        posts \in SeqsUpTo(PostfixWords, 2) \ {<<>>},
        rest \in {<<>>, <<<<"b">>>>}}

\* texts with the character '\0' in them, which the lexer hands out as an
\* Eof token before the end of the text
SentinelSources ==
    {Join(ws) : ws \in SeqsUpTo({<<"a">>, <<NUL>>, <<"-">>, <<";">>,
                                 <<"+", "+">>}, MaxWords)}

Sources ==
    SentinelSources \cup PrefixPostfixSources \cup LetSources \cup AnySources \cup TripleSources \cup PrefixSources \cup ChainSources
    \cup PostfixSources \cup StatementSources \cup FailFastSources
    \cup OtherSources

(***************************************************************************)
(* The state once Parser::new has returned and parse_program is entered.   *)
(***************************************************************************)
Init ==
    /\ \E input \in Sources : p = NewParser(input)
    /\ stack = <<Frame("parse_program", Lowest, NoExpr)>>
    /\ ret = NoExpr
    /\ statements = <<>>
    /\ status = "running"
    /\ result = NotReturned
    /\ pulled = 2
    /\ lexer = NewLexer(<<>>)
    /\ tokens = <<>>
    /\ nones = 0
    /\ rendered = NotRendered
    /\ renders = 0

Spec == Init /\ [][Next]_vars

\* the calling thread runs parse_program to its end
FairSpec == Spec /\ WF_vars(Next)

(***************************************************************************)
(* The lexer on its own, as the read-eval-print loop drives it: a caller   *)
(* that keeps asking the iterator for its next token.                      *)
(***************************************************************************)
MaxChars == 3

MaxNones == 2

\* one call of Lexer::next by the holder of the iterator
IteratorNext ==
    /\ status = "idle"
    /\ nones < MaxNones
    /\ LET r == LexerNext(lexer) IN
       /\ lexer' = r.l
       /\ IF r.tok = None
          THEN /\ nones' = nones + 1
               /\ UNCHANGED tokens
          ELSE /\ tokens' = Append(tokens, r.tok)
               /\ UNCHANGED nones
    /\ UNCHANGED <<parservars, stringvars>>

LexNext == IteratorNext

\* the characters the texts below are made of
CoreChars == {"a", "_", "é", "7", "+", "=", "!", "\"", "\n", " ", NUL, "@"}

OperatorChars == {"+", "-", "=", "!", "<", ">"}

\* every text of at most MaxChars characters
CharSources == SeqsUpTo(CoreChars, MaxChars)

\* runs of operator characters, and one operator character before another
\* character
OperatorSources ==
    SeqsUpTo(OperatorChars, MaxChars)
        \cup {<<c, d>> : c \in OperatorChars, d \in CoreChars}

Keywords ==
    {<<"l", "e", "t">>, <<"f", "n">>, <<"t", "r", "u", "e">>,
     <<"f", "a", "l", "s", "e">>, <<"i", "f">>, <<"e", "l", "s", "e">>,
     <<"r", "e", "t", "u", "r", "n">>}

\* a keyword, a keyword cut short, and a keyword with one more character
\* before or after it
KeywordSources ==
    Keywords
        \cup {SubSeq(k, 1, Len(k) - 1) : k \in Keywords}
        \cup {k \o <<c>> : k \in Keywords, c \in CoreChars \cup {"s", "A"}}
        \cup {<<c>> \o k : k \in Keywords, c \in {"a", "_", "7", "A"}}

\* an opening quote, a body, a closing quote or a newline or nothing, and
\* the text after it
StringSources ==
    {<<"\"">> \o body \o close \o tail :
        body \in SeqsUpTo({"a", " ", "+"}, MaxChars - 1),
        close \in {<<"\"">>, <<"\n">>, <<>>, <<NUL>>},
        tail \in {<<>>, <<"7">>, <<"a", "\"">>}}

LexSources ==
    CharSources \cup OperatorSources \cup KeywordSources \cup StringSources

\* the state once Lexer::new has returned
LexInit ==
    /\ \E input \in LexSources : lexer = NewLexer(input)
    /\ tokens = <<>>
    /\ nones = 0
    /\ p = NewParser(<<>>)
    /\ stack = <<>>
    /\ ret = NoExpr
    /\ statements = <<>>
    /\ status = "idle"
    /\ result = NotReturned
    /\ pulled = 0
    /\ rendered = NotRendered
    /\ renders = 0

LexSpec == LexInit /\ [][LexNext]_vars

(***************************************************************************)
(* The words of the source text, and the tokens and nodes they stand for.  *)
(***************************************************************************)
RECURSIVE SplitWords(_, _)
SplitWords(text, word) ==
    IF text = <<>> THEN (IF word = <<>> THEN <<>> ELSE <<word>>)
    ELSE IF text[1] = " "
    THEN (IF word = <<>> THEN <<>> ELSE <<word>>) \o SplitWords(Tail(text), <<>>)
    ELSE SplitWords(Tail(text), Append(word, text[1]))

SourceWords == SplitWords(p.l.input, <<>>)

Finished == status # "running"

ReturnedOk(stmts) ==
    /\ status = "ok"
    /\ result = [kind |-> "Ok", program |-> [statements |-> stmts]]

(***************************************************************************)
(* C1: parse_program terminates on every source: every iteration of its    *)
(* statement loop and of the infix loop of parse_expression advances the   *)
(* token cursor.                                                           *)
(***************************************************************************)
C1_EveryIterationAdvances ==
    [][(At("parse_program", "push") \/ At("parse_expression", "body"))
           => pulled' > pulled]_vars

(***************************************************************************)
(* C2: parse_program ends in Ok(Program) or Err(message) and in no other   *)
(* way, the conversion of an Integer token's digits to i64 included.       *)
(***************************************************************************)
C2_EndsInOkOrErr ==
    Finished => /\ status \in {"ok", "err"}
                /\ result.kind \in {"Ok", "Err"}

(***************************************************************************)
(* C3: parsing is fail-fast.  When the k-th statement is the first that    *)
(* does not parse, parse_program returns Err in the step that finds the    *)
(* failure, the k-1 statements already parsed are dropped with its locals, *)
(* and no token is pulled from the lexer in or after that step: the        *)
(* number of tokens pulled is fixed by the text before the failure, not by *)
(* the text after it.                                                      *)
(***************************************************************************)
IsPrefixOf(a, b) == Len(a) <= Len(b) /\ SubSeq(b, 1, Len(a)) = a

\* statements that parse, closed by `;`
C3_Closed ==
    {<<<<"a">>, <<";">>>>, <<<<"-">>, <<"a">>, <<";">>>>,
     <<<<"7">>, <<"+">>, <<"a">>, <<";">>>>, <<WString, <<";">>>>,
     <<WLet, <<"x">>, <<"=">>, <<"7">>, <<";">>>>,
     <<WLet, <<"x">>, <<"=">>, <<"a">>, <<"*">>, <<"b">>, <<";">>>>,
     <<WReturn, <<"a">>, <<";">>>>,
     <<WReturn, <<"a">>, <<"-">>, <<"7">>, <<";">>>>}

\* openings of a statement that does not parse, with the number of tokens
\* the parser pulls inside the statement before it finds the failure
C3_Failing ==
    {[w |-> <<WLet, <<"7">>>>, pulls |-> 0],
     [w |-> <<WLet, <<"x">>, <<"a">>>>, pulls |-> 1],
     [w |-> <<WLet, <<"x">>, <<"=">>, <<")">>>>, pulls |-> 3],
     [w |-> <<<<"+">>>>, pulls |-> 0],
     [w |-> <<<<"!">>, WString>>, pulls |-> 0]}

\* the number of statements of C3_Closed the words start with, and the
\* number of words they take
RECURSIVE C3_Lead(_)
C3_Lead(ws) ==
    IF \E g \in C3_Closed : IsPrefixOf(g, ws)
    THEN LET g == CHOOSE g \in C3_Closed : IsPrefixOf(g, ws)
             r == C3_Lead(SubSeq(ws, Len(g) + 1, Len(ws)))
         IN [statements |-> r.statements + 1, words |-> r.words + Len(g)]
    ELSE [statements |-> 0, words |-> 0]

C3_FirstFailure(ws) ==
    LET lead == C3_Lead(ws)
        rest == SubSeq(ws, lead.words + 1, Len(ws))
    IN {[pulled |-> 2 + lead.words + b.pulls, k |-> lead.statements + 1] :
           b \in {b \in C3_Failing : IsPrefixOf(b.w, rest)}}

C3_ReturnsErrAtFailure ==
    Finished =>
        \A f \in C3_FirstFailure(SourceWords) :
            /\ status = "err"
            /\ result.kind = "Err"
            /\ DOMAIN result = {"kind", "message"}
            /\ statements = <<>>
            /\ pulled = f.pulled

\* C3: the first failing statement ends parse_program in Err, with nothing
\* parsed returned and no token pulled in or after the failing step
C3_FailFast ==
    /\ []C3_ReturnsErrAtFailure
    /\ [][status' = "err" =>
             /\ status = "running"
             /\ p' = p
             /\ pulled' = pulled
             /\ stack' = <<>>
             /\ statements' = <<>>]_vars

\* the third statement fails and text follows it
C3_Witness ==
    /\ status = "err"
    /\ \E f \in C3_FirstFailure(SourceWords) :
           f.k = 3 /\ Len(SourceWords) > f.pulled

(***************************************************************************)
(* The tokens and nodes that the words of a source stand for, as the       *)
(* token list and the precedence order of the language give them.          *)
(***************************************************************************)
WordType(w) ==
    CASE w = <<"+">> -> "Plus"
      [] w = <<"-">> -> "Minus"
      [] w = <<"*">> -> "Asterisk"
      [] w = <<"/">> -> "Slash"
      [] w = <<"%">> -> "Percent"
      [] w = <<"=", "=">> -> "Equal"
      [] w = <<"!", "=">> -> "NotEqual"
      [] w = <<"<">> -> "LessThan"
      [] w = <<">">> -> "GreaterThan"
      [] w = <<"<", "=">> -> "LessThanOrEqual"
      [] w = <<">", "=">> -> "GreaterThanOrEqual"
      [] w = <<"!">> -> "Bang"
      [] w = <<"+", "+">> -> "Increment"
      [] w = <<"-", "-">> -> "Decrement"
      [] w = WString -> "String"
      [] w = WTrue -> "True"
      [] w = WLet -> "Let"
      [] w = WReturn -> "Return"
      [] w # <<>> /\ w[1] \in Digits -> "Integer"
      [] OTHER -> "Identifier"

WordToken(w) == Token(WordType(w), w)

\* the node of a primary: an identifier, a small integer, a string or a
\* boolean
OperandNode(w) ==
    CASE WordType(w) = "String" -> StringLiteral(WordToken(w))
      [] WordType(w) = "True" -> BooleanLiteral(WordToken(w))
      [] WordType(w) = "Integer" -> IntegerLiteral(WordToken(w), w)
      [] OTHER -> IdentifierExpr(WordToken(w))

OperandSet == {<<"a">>, <<"b">>, <<"c">>, <<"7">>, WString, WTrue}

\* Equals < Comparison < Sum < Product
LevelOf(w) ==
    CASE w \in {<<"=", "=">>, <<"!", "=">>} -> 1
      [] w \in {<<"<">>, <<">">>, <<"<", "=">>, <<">", "=">>} -> 2
      [] w \in {<<"+">>, <<"-">>} -> 3
      [] w \in {<<"*">>, <<"/">>, <<"%">>} -> 4

\* `A op1 B op2 C` grouped by the precedence order
Grouped(A, op1, B, op2, C) ==
    IF LevelOf(op2) > LevelOf(op1)
    THEN Infix(A, WordToken(op1), Infix(B, WordToken(op2), C))
    ELSE Infix(Infix(A, WordToken(op1), B), WordToken(op2), C)

\* the program of one expression statement
OneExpression(first, expression) ==
    ReturnedOk(<<ExpressionStatement(WordToken(first), expression)>>)

(***************************************************************************)
(* C4: `a op1 b op2 c` parses as (a op1 (b op2 c)) exactly when op2 has    *)
(* strictly higher precedence than op1 in the order Equals < Comparison <  *)
(* Sum < Product, and as ((a op1 b) op2 c) otherwise; a prefix operator    *)
(* binds its operand tighter than any binary operator.                     *)
(***************************************************************************)
C4_IsTriple(ws) ==
    /\ Len(ws) = 5
    /\ {ws[1], ws[3], ws[5]} \subseteq OperandSet
    /\ {ws[2], ws[4]} \subseteq InfixWords

C4_IsPrefixed(ws) ==
    /\ Len(ws) = 4
    /\ ws[1] \in PrefixWords
    /\ ws[2] \in OperandSet \ {WString}
    /\ ws[3] \in InfixWords
    /\ ws[4] \in OperandSet

\* C4: three operands group by the precedence order, and a prefix operator
\* binds tighter than a binary one
C4_Precedence ==
    Finished =>
        LET ws == SourceWords IN
        /\ C4_IsTriple(ws) =>
               OneExpression(ws[1],
                   Grouped(OperandNode(ws[1]), ws[2], OperandNode(ws[3]),
                           ws[4], OperandNode(ws[5])))
        /\ C4_IsPrefixed(ws) =>
               OneExpression(ws[1],
                   Infix(Prefix(WordToken(ws[1]), OperandNode(ws[2])),
                         WordToken(ws[3]), OperandNode(ws[4])))

\* a source whose second operator binds tighter has been parsed
C4_Witness ==
    /\ status = "ok"
    /\ C4_IsTriple(SourceWords)
    /\ LevelOf(SourceWords[4]) > LevelOf(SourceWords[2])
    /\ result.program.statements[1].expression.right.kind = "Infix"

(***************************************************************************)
(* C5: binary operators are left-associative: a chain of operands joined   *)
(* by operators of one precedence level parses with left grouping,         *)
(* (((a op1 b) op2 c) ...).                                                *)
(***************************************************************************)
C5_IsChain(ws) ==
    /\ Len(ws) >= 3
    /\ Len(ws) % 2 = 1
    /\ \A i \in 1..Len(ws) :
           IF i % 2 = 1 THEN ws[i] \in OperandSet ELSE ws[i] \in InfixWords
    /\ \A i, j \in 1..Len(ws) :
           i % 2 = 0 /\ j % 2 = 0 => LevelOf(ws[i]) = LevelOf(ws[j])

\* the left grouping of the first n words
RECURSIVE C5_LeftGrouped(_, _)
C5_LeftGrouped(ws, n) ==
    IF n = 1 THEN OperandNode(ws[1])
    ELSE Infix(C5_LeftGrouped(ws, n - 2), WordToken(ws[n - 1]),
               OperandNode(ws[n]))

\* C5: a chain of operators of one level is grouped to the left
C5_LeftAssociative ==
    Finished =>
        (C5_IsChain(SourceWords) =>
             OneExpression(SourceWords[1],
                           C5_LeftGrouped(SourceWords, Len(SourceWords))))

\* a chain of four operands has been parsed
C5_Witness ==
    /\ status = "ok"
    /\ C5_IsChain(SourceWords)
    /\ Len(SourceWords) = 7

(***************************************************************************)
(* C6: a postfix operator that directly follows an Identifier or Integer   *)
(* primary is folded into a Postfix node around that primary before any    *)
(* enclosing prefix or infix operator is applied, wherever the primary     *)
(* stands in an infix chain.                                               *)
(***************************************************************************)
\* the binary operators that are nothing but binary
C6_Separators == InfixWords \ {<<"-">>}

\* the words cut at the separators: the pieces between them and the
\* separators themselves
RECURSIVE C6_Cut(_, _)
C6_Cut(ws, piece) ==
    IF ws = <<>> THEN [units |-> <<piece>>, ops |-> <<>>]
    ELSE IF ws[1] \in C6_Separators
    THEN LET r == C6_Cut(Tail(ws), <<>>) IN
         [units |-> <<piece>> \o r.units, ops |-> <<ws[1]>> \o r.ops]
    ELSE C6_Cut(Tail(ws), Append(piece, ws[1]))

C6_Primaries == {<<"a">>, <<"b">>, <<"c">>, <<"7">>}

C6_HasPostfix(u) ==
    \/ Len(u) = 2 /\ u[1] \in C6_Primaries /\ u[2] \in PostfixWords
    \/ /\ Len(u) = 3
       /\ u[1] \in PrefixWords
       /\ u[2] \in C6_Primaries
       /\ u[3] \in PostfixWords

C6_IsUnit(u) ==
    \/ Len(u) = 1 /\ u[1] \in C6_Primaries
    \/ Len(u) = 2 /\ u[1] \in PrefixWords /\ u[2] \in C6_Primaries
    \/ C6_HasPostfix(u)

C6_UnitNode(u) ==
    CASE Len(u) = 1 -> OperandNode(u[1])
      [] Len(u) = 2 /\ u[1] \in C6_Primaries ->
             Postfix(OperandNode(u[1]), WordToken(u[2]))
      [] Len(u) = 2 /\ u[1] \notin C6_Primaries ->
             Prefix(WordToken(u[1]), OperandNode(u[2]))
      [] Len(u) = 3 ->
             Prefix(WordToken(u[1]),
                    Postfix(OperandNode(u[2]), WordToken(u[3])))

C6_Applies(ws) ==
    LET c == C6_Cut(ws, <<>>) IN
    /\ Len(c.units) \in {2, 3}
    /\ \A i \in 1..Len(c.units) : C6_IsUnit(c.units[i])
    /\ \E i \in 1..Len(c.units) : C6_HasPostfix(c.units[i])

C6_Expected(ws) ==
    LET c == C6_Cut(ws, <<>>) IN
    IF Len(c.units) = 2
    THEN Infix(C6_UnitNode(c.units[1]), WordToken(c.ops[1]),
               C6_UnitNode(c.units[2]))
    ELSE Grouped(C6_UnitNode(c.units[1]), c.ops[1], C6_UnitNode(c.units[2]),
                 c.ops[2], C6_UnitNode(c.units[3]))

\* C6: the postfix operator wraps its primary inside the enclosing prefix
\* and infix nodes
C6_PostfixFoldedFirst ==
    Finished =>
        (C6_Applies(SourceWords) =>
             OneExpression(SourceWords[1], C6_Expected(SourceWords)))

\* `b op1 x++ op2 c` with op2 binding tighter has been parsed
C6_Witness ==
    /\ status = "ok"
    /\ C6_Applies(SourceWords)
    /\ LET c == C6_Cut(SourceWords, <<>>) IN
       /\ Len(c.units) = 3
       /\ C6_HasPostfix(c.units[2])
       /\ LevelOf(c.ops[2]) > LevelOf(c.ops[1])

(***************************************************************************)
(* C7: for each of the prefix operators `!`, `-`, `++`, `--`, at any       *)
(* nesting depth, a prefix operator directly followed by a String token    *)
(* makes parse_program return Err, and no Prefix node with a StringLiteral *)
(* operand is ever built.                                                  *)
(***************************************************************************)
RECURSIVE C7_PrefixOnString(_)
C7_PrefixOnString(node) ==
    CASE node.kind = "Prefix" ->
             node.right.kind = "StringLiteral" \/ C7_PrefixOnString(node.right)
      [] node.kind = "Infix" ->
             C7_PrefixOnString(node.left) \/ C7_PrefixOnString(node.right)
      [] node.kind = "Postfix" -> C7_PrefixOnString(node.left)
      [] node.kind = "LetStatement" -> C7_PrefixOnString(node.value)
      [] node.kind = "ReturnStatement" -> C7_PrefixOnString(node.return_value)
      [] node.kind = "ExpressionStatement" ->
             C7_PrefixOnString(node.expression)
      [] OTHER -> FALSE

\* every node the parser holds: returned, collected or under construction
C7_Nodes ==
    {ret} \cup {statements[i] : i \in 1..Len(statements)}
    \cup {stack[i].left : i \in 1..Len(stack)}
    \cup (IF status = "ok"
          THEN {result.program.statements[i] :
                   i \in 1..Len(result.program.statements)}
          ELSE {})

\* the number of prefix operators the words open with
RECURSIVE C7_Depth(_)
C7_Depth(ws) ==
    IF ws # <<>> /\ ws[1] \in PrefixWords THEN 1 + C7_Depth(Tail(ws)) ELSE 0

\* prefix operators, the last of them directly on a string, open the source
C7_OpensOnString(ws) ==
    /\ C7_Depth(ws) >= 1
    /\ Len(ws) > C7_Depth(ws)
    /\ ws[C7_Depth(ws) + 1] = WString

C7_NoPrefixOnString ==
    /\ \A node \in C7_Nodes : ~C7_PrefixOnString(node)
    /\ Finished =>
           /\ C7_OpensOnString(SourceWords) => status = "err"
           /\ (\E i \in 1..(Len(SourceWords) - 1) :
                   SourceWords[i] = <<"!">> /\ SourceWords[i + 1] = WString)
                  => status # "ok"

\* C7: a prefix operator on a String token ends in Err, and no Prefix node
\* over a StringLiteral exists
C7_PrefixOnStringRejected ==
    /\ []C7_NoPrefixOnString
    /\ [][(/\ At("parse_prefix_expression", "start")
           /\ is_prefix_op(p.cur_token.ttype)
           /\ p.peek_token.ttype = "String")
              => /\ status' = "err"
                 /\ result'.kind = "Err"]_vars

\* the inner of two nested prefix operators stood on a string
C7_Witness ==
    /\ status = "err"
    /\ result.message[1] = "parse_prefix_expression() not implemented for"
    /\ C7_Depth(SourceWords) = 2
    /\ C7_OpensOnString(SourceWords)

(***************************************************************************)
(* C8: parse_expression returns Err whenever the current token is not one  *)
(* of Identifier, Integer, String, True, False, `!`, `-`, `++`, `--`, at   *)
(* the start of an expression or as the operand of a prefix or infix       *)
(* operator, and parse_program returns that Err.                           *)
(***************************************************************************)
C8_Starters ==
    {"Identifier", "Integer", "String", "True", "False", "Bang", "Minus",
     "Increment", "Decrement"}

C8_NotImplemented(literal) ==
    /\ status = "err"
    /\ result.kind = "Err"
    /\ result.message[1] = "parse_expression() not implemented for"
    /\ result.message[2].literal = literal

C8_ErrOnOtherWord ==
    Finished =>
        LET ws == SourceWords IN
        /\ (Len(ws) >= 1 /\ ws[1] \in OtherWords) =>
               C8_NotImplemented(ws[1])
        /\ (/\ Len(ws) >= 2
            /\ ws[1] \in PrefixWords \cup {WReturn}
            /\ ws[2] \in OtherWords) => C8_NotImplemented(ws[2])
        /\ (/\ Len(ws) >= 3
            /\ ws[1] \in C6_Primaries
            /\ ws[2] \in C6_Separators
            /\ ws[3] \in OtherWords) => C8_NotImplemented(ws[3])
        /\ (/\ Len(ws) = 2
            /\ ws[1] \in C6_Primaries
            /\ ws[2] \in C6_Separators) => C8_NotImplemented(<<NUL>>)

\* C8: parse_expression on a token of no starting kind returns Err, which
\* parse_program returns
C8_NoProductionIsErr ==
    /\ []C8_ErrOnOtherWord
    /\ [][(/\ At("parse_expression", "start")
           /\ p.cur_token # None
           /\ p.cur_token.ttype \notin C8_Starters)
              => /\ status' = "err"
                 /\ stack' = <<>>
                 /\ result' = [kind |-> "Err",
                               message |->
                                   <<"parse_expression() not implemented for",
                                     p.cur_token>>]]_vars

\* the operand of an infix operator was a token of no starting kind
C8_Witness ==
    /\ Len(SourceWords) >= 3
    /\ SourceWords[1] \in C6_Primaries
    /\ SourceWords[2] \in C6_Separators
    /\ SourceWords[3] \in OtherWords
    /\ C8_NotImplemented(SourceWords[3])

(***************************************************************************)
(* C9: a let statement is accepted only in the shape `let` Identifier `=`  *)
(* expression: when the token after `let` is not an Identifier, or the     *)
(* token after that Identifier is not `=`, parse_program returns Err;      *)
(* otherwise the LetStatement has the identifier text as its name and the  *)
(* expression parsed at the lowest precedence as its value.                *)
(***************************************************************************)
C9_Names == {<<"a">>, <<"b">>, <<"c">>, <<"x">>, <<"y">>}

\* the words without a closing `;`
C9_Unclosed(ws) ==
    IF ws # <<>> /\ ws[Len(ws)] = <<";">>
    THEN SubSeq(ws, 1, Len(ws) - 1) ELSE ws

\* expressions of one, two or three operands
C9_IsExpression(e) ==
    \/ Len(e) = 1 /\ e[1] \in OperandSet
    \/ Len(e) = 3 /\ {e[1], e[3]} \subseteq OperandSet /\ e[2] \in InfixWords
    \/ C4_IsTriple(e)

C9_ExpressionNode(e) ==
    CASE Len(e) = 1 -> OperandNode(e[1])
      [] Len(e) = 3 ->
             Infix(OperandNode(e[1]), WordToken(e[2]), OperandNode(e[3]))
      [] Len(e) = 5 ->
             Grouped(OperandNode(e[1]), e[2], OperandNode(e[3]), e[4],
                     OperandNode(e[5]))

C9_ExpectedErr(kind) ==
    /\ status = "err"
    /\ result.message[1] = "expected next token to be"
    /\ result.message[2] = kind

C9_LetResult ==
    Finished =>
        LET ws == SourceWords
            e == SubSeq(C9_Unclosed(ws), 4, Len(C9_Unclosed(ws)))
        IN (ws # <<>> /\ ws[1] = WLet) =>
               IF Len(ws) < 2 \/ ws[2] \notin C9_Names
               THEN C9_ExpectedErr("Identifier")
               ELSE IF Len(ws) < 3 \/ ws[3] # <<"=">>
               THEN C9_ExpectedErr("Assign")
               ELSE C9_IsExpression(e) =>
                        ReturnedOk(<<LetStatement(WordToken(WLet),
                                                  Identifier(WordToken(ws[2])),
                                                  C9_ExpressionNode(e))>>)

\* C9: `let` Identifier `=` expression, or Err
C9_LetShape ==
    /\ []C9_LetResult
    /\ [][/\ (At("parse_let_statement", "start")
                 /\ p.peek_token.ttype # "Identifier") => status' = "err"
          /\ (At("parse_let_statement", "assign")
                 /\ p.peek_token.ttype # "Assign") => status' = "err"
          /\ (At("parse_let_statement", "value") =>
                 /\ ret'.kind = "LetStatement"
                 /\ ret'.token.ttype = "Let"
                 /\ ret'.name.token.ttype = "Identifier"
                 /\ ret'.name.value = ret'.name.token.literal
                 /\ ret'.value = ret)]_vars

\* a let statement over an expression of three operands was returned
C9_Witness ==
    /\ status = "ok"
    /\ SourceWords # <<>>
    /\ SourceWords[1] = WLet
    /\ Len(result.program.statements) = 1
    /\ result.program.statements[1].kind = "LetStatement"
    /\ result.program.statements[1].value.kind = "Infix"
    /\ C4_IsTriple(SubSeq(C9_Unclosed(SourceWords), 4,
                          Len(C9_Unclosed(SourceWords))))

(***************************************************************************)
(* C10: the trailing `;` is optional for the three statement kinds: a      *)
(* statement with its `;` and the same statement without it give the same  *)
(* Statement node, and the next statement starts at the first token not    *)
(* consumed, so that n complete statements written one after the other     *)
(* give a Program of exactly those n statements in source order.           *)
(***************************************************************************)
\* complete statements of the three kinds, with the node each stands for
C10_Forms ==
    {[w |-> <<<<"a">>>>,
      node |-> ExpressionStatement(WordToken(<<"a">>),
                                   OperandNode(<<"a">>))],
     [w |-> <<WString>>,
      node |-> ExpressionStatement(WordToken(WString), OperandNode(WString))],
     [w |-> <<<<"7">>, <<"+">>, <<"a">>>>,
      node |-> ExpressionStatement(WordToken(<<"7">>),
                   Infix(OperandNode(<<"7">>), WordToken(<<"+">>),
                         OperandNode(<<"a">>)))],
     [w |-> <<<<"-">>, <<"a">>>>,
      node |-> ExpressionStatement(WordToken(<<"-">>),
                   Prefix(WordToken(<<"-">>), OperandNode(<<"a">>)))],
     [w |-> <<<<"+", "+">>, <<"a">>>>,
      node |-> ExpressionStatement(WordToken(<<"+", "+">>),
                   Prefix(WordToken(<<"+", "+">>), OperandNode(<<"a">>)))],
     [w |-> <<WLet, <<"x">>, <<"=">>, <<"7">>>>,
      node |-> LetStatement(WordToken(WLet), Identifier(WordToken(<<"x">>)),
                            OperandNode(<<"7">>))],
     [w |-> <<WLet, <<"x">>, <<"=">>, <<"a">>, <<"*">>, <<"b">>>>,
      node |-> LetStatement(WordToken(WLet), Identifier(WordToken(<<"x">>)),
                   Infix(OperandNode(<<"a">>), WordToken(<<"*">>),
                         OperandNode(<<"b">>)))],
     [w |-> <<WReturn, <<"a">>>>,
      node |-> ReturnStatement(WordToken(WReturn), OperandNode(<<"a">>))],
     [w |-> <<WReturn, <<"a">>, <<"-">>, <<"7">>>>,
      node |-> ReturnStatement(WordToken(WReturn),
                   Infix(OperandNode(<<"a">>), WordToken(<<"-">>),
                         OperandNode(<<"7">>)))]}

\* every way to read the words as statements of C10_Forms, each with or
\* without its `;`
RECURSIVE C10_Readings(_)
C10_Readings(ws) ==
    IF ws = <<>> THEN {<<>>}
    ELSE UNION {
        LET n == Len(f.w)
            closed == Len(ws) > n /\ ws[n + 1] = <<";">>
            rest == SubSeq(ws, n + (IF closed THEN 2 ELSE 1), Len(ws))
        IN {<<[w |-> f.w, node |-> f.node, closed |-> closed]>> \o r :
               r \in C10_Readings(rest)} :
        f \in {f \in C10_Forms : IsPrefixOf(f.w, ws)}}

C10_Nodes(r) == [i \in 1..Len(r) |-> r[i].node]

\* C10, as stated: every reading of the source as complete statements, with
\* or without `;`, is the program returned
C10_SemicolonOptional ==
    Finished =>
        \A r \in C10_Readings(SourceWords) : ReturnedOk(C10_Nodes(r))

\* no statement left without `;` is followed by one that opens with a token
\* the parser takes as an infix or postfix operator
C10_Separable(r) ==
    \A i \in 1..(Len(r) - 1) :
        r[i].closed \/ r[i + 1].w[1] \notin {<<"-">>, <<"+", "+">>, <<"-", "-">>}

\* C10, amended: the same for the readings in which no statement left
\* without `;` is followed by one that opens with `-`, `++` or `--`
C10_SemicolonOptionalUnlessOperator ==
    Finished =>
        \A r \in C10_Readings(SourceWords) :
            C10_Separable(r) => ReturnedOk(C10_Nodes(r))

\* three statements without a `;` between them were returned
C10_Witness ==
    /\ status = "ok"
    /\ \E r \in C10_Readings(SourceWords) :
           /\ Len(r) = 3
           /\ C10_Separable(r)
           /\ ~r[1].closed
           /\ ~r[2].closed

(***************************************************************************)
(* The token sequence of the lexer.                                        *)
(***************************************************************************)
\* the iterator has answered None
Exhausted == nones > 0

LastToken == tokens[Len(tokens)]

\* the cursor has passed every character of the text and the sentinel
ScannedToTheEnd ==
    /\ lexer.position = Len(lexer.input) + 1
    /\ lexer.read_position = Len(lexer.input) + 2

C11_EndsWithinTheText == Len(tokens) <= Len(lexer.input) + 1

\* a call that hands out a token moves the cursor forward, and the cursor
\* has only the text and two more places to move over
C11_EveryTokenAdvances ==
    [][tokens' # tokens
         => /\ lexer'.read_position > lexer.read_position
            /\ lexer'.read_position <= Len(lexer.input) + 2]_vars

C11_NoneIsFinal ==
    [][Exhausted => /\ nones' = nones + 1
                    /\ tokens' = tokens
                    /\ lexer' = lexer]_vars

C11_CursorNeverDecreases ==
    [][/\ lexer'.position >= lexer.position
       /\ lexer'.read_position >= lexer.read_position
       /\ lexer'.input = lexer.input]_vars

C11_IllegalDoesNotStop ==
    Exhausted => /\ ScannedToTheEnd
                 /\ tokens # <<>>
                 /\ LastToken.ttype = "Eof"

\* C11: for every text every token handed out moves the cursor forward, so
\* the caller is handed at most one token per character and one more before
\* the answer is None; after a None every call answers None and
\* changes nothing; the cursor never moves back; and None is answered only
\* once the cursor has passed the whole text and Eof was handed out, Illegal
\* tokens or not.
C11_FiniteNonRestartable ==
    /\ C11_EveryTokenAdvances
    /\ []C11_EndsWithinTheText
    /\ C11_NoneIsFinal
    /\ C11_CursorNeverDecreases
    /\ []C11_IllegalDoesNotStop

\* an unrecognized character and an unterminated string were both handed
\* out as Illegal, the scan went on to Eof, and None was answered twice
C11_Witness ==
    /\ nones = 2
    /\ \E i, j \in 1..Len(tokens) :
          /\ tokens[i] = Token("Illegal", <<"@">>)
          /\ tokens[j].ttype = "Illegal"
          /\ tokens[j].literal[1] = "\""
    /\ LastToken.ttype = "Eof"

\* C12: the tokens handed out hold no Eof before the last one, and once None
\* is answered the last token handed out is the one Eof.
C12_ExactlyOneEofLast ==
    /\ \A i \in 1..Len(tokens) : tokens[i].ttype = "Eof" => i = Len(tokens)
    /\ Exhausted => /\ tokens # <<>>
                    /\ LastToken.ttype = "Eof"

(***************************************************************************)
(* Operators of one and of two characters.                                 *)
(***************************************************************************)
\* first character, second character, the token of both, the token of the
\* first alone
C13_Operators ==
    {<<"+", "+", "Increment", "Plus">>, <<"-", "-", "Decrement", "Minus">>,
     <<"=", "=", "Equal", "Assign">>, <<"!", "=", "NotEqual", "Bang">>,
     <<"<", "=", "LessThanOrEqual", "LessThan">>,
     <<">", "=", "GreaterThanOrEqual", "GreaterThan">>}

\* the character at 0-based place i of the text, NUL past its end
CharAt(i) == IF i < Len(lexer.input) THEN lexer.input[i + 1] ELSE NUL

\* a call with the cursor on the first character of row o
C13_Step(o) ==
    LET at == lexer.position IN
    lexer.ch = o[1] =>
        /\ Len(tokens') = Len(tokens) + 1
        /\ IF CharAt(at + 1) = o[2]
           THEN /\ tokens'[Len(tokens')] = Token(o[3], <<o[1], o[2]>>)
                /\ lexer'.position = at + 2
                /\ lexer'.ch = CharAt(at + 2)
           ELSE /\ tokens'[Len(tokens')] = Token(o[4], <<o[1]>>)
                /\ lexer'.position = at + 1
                /\ lexer'.ch = CharAt(at + 1)

C13_Examples ==
    Exhausted =>
        /\ lexer.input = <<"+", "+", "+">>
              => tokens = <<Token("Increment", <<"+", "+">>),
                            Token("Plus", <<"+">>), Token("Eof", <<NUL>>)>>
        /\ lexer.input = <<"+", "-">>
              => tokens = <<Token("Plus", <<"+">>), Token("Minus", <<"-">>),
                            Token("Eof", <<NUL>>)>>

\* C13: a call with the cursor on `+`,`-`,`=`,`!`,`<`,`>` hands out the
\* two-character token and moves two places when the next character is
\* `+`,`-`,`=`,`=`,`=`,`=` respectively; otherwise it hands out the
\* one-character token and leaves the cursor on the next character; `+++` is
\* `++` `+` and `+-` is `+` `-`.
C13_TwoCharacterOperators ==
    /\ [][\A o \in C13_Operators : C13_Step(o)]_vars
    /\ []C13_Examples

\* `+++` was scanned to its end
C13_Witness ==
    /\ Exhausted
    /\ lexer.input = <<"+", "+", "+">>
    /\ Len(tokens) = 3
    /\ tokens[1].ttype = "Increment"

(***************************************************************************)
(* Identifiers and keywords.                                               *)
(***************************************************************************)
C14_KeywordKinds ==
    {<<<<"l", "e", "t">>, "Let">>, <<<<"f", "n">>, "Fn">>,
     <<<<"t", "r", "u", "e">>, "True">>,
     <<<<"f", "a", "l", "s", "e">>, "False">>, <<<<"i", "f">>, "If">>,
     <<<<"e", "l", "s", "e">>, "Else">>,
     <<<<"r", "e", "t", "u", "r", "n">>, "Return">>}

C14_Kind(run) ==
    IF \E k \in C14_KeywordKinds : k[1] = run
    THEN (CHOOSE k \in C14_KeywordKinds : k[1] = run)[2]
    ELSE "Identifier"

\* the longest run of alphabetic or underscore characters from place i on
RECURSIVE C14_Run(_)
C14_Run(i) ==
    IF IsAlphabetic(CharAt(i)) \/ CharAt(i) = "_"
    THEN <<CharAt(i)>> \o C14_Run(i + 1)
    ELSE <<>>

\* C14: a call with the cursor on an alphabetic character or an underscore
\* hands out one token whose text is the longest run of alphabetic or
\* underscore characters from there (a digit ends it), of the keyword kind
\* when the run is a keyword and of kind Identifier otherwise, and leaves
\* the cursor on the character after the run.
C14_IdentifierIsMaximalRun ==
    [][(IsAlphabetic(lexer.ch) \/ lexer.ch = "_")
         => LET run == C14_Run(lexer.position) IN
            /\ tokens' = Append(tokens, Token(C14_Kind(run), run))
            /\ lexer'.position = lexer.position + Len(run)]_vars

(***************************************************************************)
(* String literals.                                                        *)
(***************************************************************************)
\* the first place from i on that holds a quote or a newline, or the end of
\* the text
RECURSIVE C15_Close(_)
C15_Close(i) ==
    IF i >= Len(lexer.input) \/ CharAt(i) \in {"\"", "\n"}
    THEN i
    ELSE C15_Close(i + 1)

\* the characters at places i to j - 1
C15_Text(i, j) == SubSeq(lexer.input, i + 1, j)

C15_Step ==
    lexer.ch = "\"" =>
        LET at == lexer.position
            q == C15_Close(at + 1)
        IN  IF CharAt(q) = "\""
            THEN /\ tokens' = Append(tokens,
                                     Token("String", C15_Text(at, q + 1)))
                 /\ lexer'.position = q + 1
            ELSE /\ tokens' = Append(tokens, Token("Illegal", C15_Text(at, q)))
                 /\ lexer'.position = q
                 /\ lexer'.ch = CharAt(q)

C15_Examples ==
    Exhausted =>
        /\ LastToken.ttype = "Eof"
        /\ lexer.input = <<"\"", "a", "\n", "7">>
              => tokens = <<Token("Illegal", <<"\"", "a">>),
                            Token("Integer", <<"7">>), Token("Eof", <<NUL>>)>>

\* C15: a call with the cursor on a quote hands out, when another quote
\* comes before a newline and the end of the text, a String token holding
\* the text from quote to quote, and otherwise an Illegal token holding the
\* text from the quote up to the newline or the end, with the cursor left
\* there; the tokens after the newline follow and the last token is Eof.
C15_Strings ==
    /\ [][C15_Step]_vars
    /\ []C15_Examples

(***************************************************************************)
(* The operators stored in the tree.                                       *)
(***************************************************************************)
\* the kind of every operator node under a node, with the token it stores
RECURSIVE C16_Operators(_)
C16_Operators(node) ==
    CASE node.kind = "Prefix" ->
             {<<"Prefix", node.operator>>} \cup C16_Operators(node.right)
      [] node.kind = "Infix" ->
             {<<"Infix", node.operator>>} \cup C16_Operators(node.left)
                 \cup C16_Operators(node.right)
      [] node.kind = "Postfix" ->
             {<<"Postfix", node.operator>>} \cup C16_Operators(node.left)
      [] node.kind = "LetStatement" -> C16_Operators(node.value)
      [] node.kind = "ReturnStatement" -> C16_Operators(node.return_value)
      [] node.kind = "ExpressionStatement" -> C16_Operators(node.expression)
      [] OTHER -> {}

C16_Allowed ==
    [Prefix |-> {Token("Bang", <<"!">>), Token("Minus", <<"-">>),
                 Token("Increment", <<"+", "+">>),
                 Token("Decrement", <<"-", "-">>)},
     Infix |-> {Token("Plus", <<"+">>), Token("Minus", <<"-">>),
                Token("Asterisk", <<"*">>), Token("Slash", <<"/">>),
                Token("Percent", <<"%">>), Token("Equal", <<"=", "=">>),
                Token("NotEqual", <<"!", "=">>), Token("LessThan", <<"<">>),
                Token("GreaterThan", <<">">>),
                Token("LessThanOrEqual", <<"<", "=">>),
                Token("GreaterThanOrEqual", <<">", "=">>)},
     Postfix |-> {Token("Increment", <<"+", "+">>),
                  Token("Decrement", <<"-", "-">>)}]

\* the statements parse_program returned
Returned ==
    IF status = "ok"
    THEN {result.program.statements[i] :
             i \in 1..Len(result.program.statements)}
    ELSE {}

\* C16: in every tree returned, and in every node built on the way, a
\* Prefix node stores one of `!` `-` `++` `--`, an Infix node one of
\* `+ - * / % == != < > <= >=`, and a Postfix node `++` or `--`.
C16_OperatorsAreOperators ==
    \A node \in C7_Nodes :
        \A o \in C16_Operators(node) : o[2] \in C16_Allowed[o[1]]

\* a tree with a Prefix, an Infix and a Postfix node was returned
C16_Witness ==
    \E node \in Returned :
        {o[1] : o \in C16_Operators(node)} = {"Prefix", "Infix", "Postfix"}

(***************************************************************************)
(* The `?` token.                                                          *)
(***************************************************************************)
\* the kinds of the nodes under a node
RECURSIVE C17_Kinds(_)
C17_Kinds(node) ==
    {node.kind} \cup
    CASE node.kind = "Prefix" -> C17_Kinds(node.right)
      [] node.kind = "Infix" -> C17_Kinds(node.left) \cup C17_Kinds(node.right)
      [] node.kind = "Postfix" -> C17_Kinds(node.left)
      [] node.kind = "Ternary" ->
             C17_Kinds(node.condition) \cup C17_Kinds(node.if_true)
                 \cup C17_Kinds(node.if_false)
      [] node.kind = "LetStatement" -> C17_Kinds(node.value)
      [] node.kind = "ReturnStatement" -> C17_Kinds(node.return_value)
      [] node.kind = "ExpressionStatement" -> C17_Kinds(node.expression)
      [] OTHER -> {}

C17_NoTernaryNode ==
    \A node \in C7_Nodes :
        /\ "Ternary" \notin C17_Kinds(node)
        /\ \A o \in C16_Operators(node) : o[2].ttype # "Question"

\* no step moves a `?` out of the peek token that stands behind an operand,
\* and no step moves the parser off a `?` that is the current token
C17_QuestionStays ==
    [][/\ (At("parse_expression", "loop") \/ At("parse_expression", "body"))
          /\ p.peek_token.ttype = "Question"
             => p' = p
       /\ p.cur_token.ttype = "Question" => p' = p]_vars

\* C17: no node the parser builds or returns is a Ternary node or stores a
\* `?` as its operator; a `?` behind an operand is never made the current
\* token, and a `?` that is the current token is never passed, so a source
\* with a `?` in it is never returned as a Program.
C17_QuestionNeverConsumed ==
    /\ []C17_NoTernaryNode
    /\ C17_QuestionStays
    /\ [](status = "ok" => \A i \in 1..Len(SourceWords) :
                               SourceWords[i] # <<"?">>)

\* the infix loop stands before a `?` that follows an operand
C17_Witness ==
    /\ At("parse_expression", "body")
    /\ p.peek_token = Token("Question", <<"?">>)
    /\ Top.left.kind \in {"Identifier", "IntegerLiteral"}

(***************************************************************************)
(* Rendering.                                                              *)
(***************************************************************************)
C18_Paren(text) == <<"(">> \o text \o <<")">>

\* the canonical form of a node: parts side by side, or one space apart
RECURSIVE C18_Form(_)
C18_Form(node) ==
    CASE node.kind = "LetStatement" ->
             Join(<<WLet, node.name.value, <<"=">>, C18_Form(node.value)>>)
                 \o <<";">>
      [] node.kind = "ReturnStatement" ->
             Join(<<WReturn, C18_Form(node.return_value)>>) \o <<";">>
      [] node.kind = "ExpressionStatement" ->
             C18_Form(node.expression) \o <<";">>
      [] node.kind = "Prefix" ->
             C18_Paren(Flatten(<<node.operator.literal,
                                 C18_Form(node.right)>>))
      [] node.kind = "Infix" ->
             C18_Paren(Join(<<C18_Form(node.left), node.operator.literal,
                              C18_Form(node.right)>>))
      [] node.kind = "Postfix" ->
             C18_Paren(Flatten(<<C18_Form(node.left),
                                 node.operator.literal>>))
      [] OTHER -> node.token.literal

\* the text of `let x = a * b; return a - 7`
C18_Example ==
    <<"l", "e", "t", " ", "x", " ", "=", " ", "(", "a", " ", "*", " ",
      "b", ")", ";", "r", "e", "t", "u", "r", "n", " ", "(", "a", " ",
      "-", " ", "7", ")", ";">>

C18_Canonical ==
    renders > 0 =>
        /\ status = "ok"
        /\ rendered.text =
               Flatten([i \in 1..Len(result.program.statements) |->
                           C18_Form(result.program.statements[i])])
        /\ SourceWords = <<WLet, <<"x">>, <<"=">>, <<"a">>, <<"*">>, <<"b">>,
                           <<";">>, WReturn, <<"a">>, <<"-">>, <<"7">>>>
              => rendered.text = C18_Example

\* a call of Program::string leaves the tree as it was, and a second call
\* returns the text of the first
C18_Repeatable ==
    [][renders' # renders
         => /\ result' = result
            /\ renders > 0 => rendered' = rendered]_vars

\* C18: the text Program::string returns is the canonical forms of the
\* statements side by side (`let <name> = <value>;`, `return <value>;`,
\* `<expr>;`, `(<op><operand>)`, `(<left> <op> <right>)`, `(<operand><op>)`);
\* a call leaves the tree unchanged and a second call returns the same text.
C18_Rendering ==
    /\ []C18_Canonical
    /\ C18_Repeatable

\* `let x = a * b; return a - 7` was rendered twice
C18_Witness ==
    /\ renders = 2
    /\ Len(result.program.statements) = 2
    /\ rendered.text = C18_Example

(***************************************************************************)
(* The end of the infix loop.                                              *)
(***************************************************************************)
\* the peek token is a binary operator above the minimum and not `;`
C19_Continues ==
    /\ p.peek_token.ttype # "Semicolon"
    /\ precedence_for_op(p.peek_token.ttype) > Top.precedence
    /\ is_infix_op(p.peek_token.ttype)

\* C19: at the head of the infix loop, with a token behind the operand, the
\* loop goes on into its body when that token is a binary operator above
\* the minimum precedence and not `;`; on any other token, `?`, `(` and `[`
\* included, parse_expression returns the expression built so far and the
\* token is not consumed.
C19_LoopEndsOnOtherTokens ==
    [][(At("parse_expression", "loop") /\ p.peek_token # None)
         => IF C19_Continues
            THEN stack' = Append(SubSeq(stack, 1, Len(stack) - 1),
                                 [Top EXCEPT !.pc = "body"])
            ELSE /\ stack' = SubSeq(stack, 1, Len(stack) - 1)
                 /\ ret' = Top.left
                 /\ p' = p
                 /\ status' = "running"]_vars

(***************************************************************************)
(* A postfix operator behind a prefix expression.                          *)
(***************************************************************************)
\* a Postfix node directly around a `!` node, somewhere under the node
RECURSIVE C20_PostfixOnBang(_)
C20_PostfixOnBang(node) ==
    CASE node.kind = "Postfix" ->
             \/ node.left.kind = "Prefix" /\ node.left.operator.ttype = "Bang"
             \/ C20_PostfixOnBang(node.left)
      [] node.kind = "Prefix" -> C20_PostfixOnBang(node.right)
      [] node.kind = "Infix" ->
             C20_PostfixOnBang(node.left) \/ C20_PostfixOnBang(node.right)
      [] node.kind = "LetStatement" -> C20_PostfixOnBang(node.value)
      [] node.kind = "ReturnStatement" -> C20_PostfixOnBang(node.return_value)
      [] node.kind = "ExpressionStatement" ->
             C20_PostfixOnBang(node.expression)
      [] OTHER -> FALSE

\* the words are a prefix operator, an operand, postfix operators and
\* possibly the operand b
C20_Applies(ws) ==
    /\ Len(ws) >= 3
    /\ ws[1] \in PrefixWords
    /\ ws[2] \in {<<"a">>, <<"7">>, WTrue}
    /\ ws[3] \in PostfixWords
    /\ \A i \in 4..Len(ws) :
          \/ ws[i] \in PostfixWords
          \/ i = Len(ws) /\ ws[i] = <<"b">>

\* the prefix operators ops on the operand w
RECURSIVE C20_Prefixed(_, _)
C20_Prefixed(ops, w) ==
    IF ops = <<>> THEN OperandNode(w)
    ELSE Prefix(WordToken(ops[1]), C20_Prefixed(Tail(ops), w))

\* the first statement and the words left for the next: the operand takes
\* the first postfix operator when it is an identifier or an integer, and
\* the prefix node takes the next one unless its operator is `!`
C20_Reading(ws) ==
    LET onOperand == ws[2] # WTrue
        inner == IF onOperand
                 THEN Postfix(OperandNode(ws[2]), WordToken(ws[3]))
                 ELSE OperandNode(ws[2])
        after == SubSeq(ws, IF onOperand THEN 4 ELSE 3, Len(ws))
        wraps == /\ ws[1] # <<"!">>
                 /\ after # <<>>
                 /\ after[1] \in PostfixWords
        whole == Prefix(WordToken(ws[1]), inner)
    IN  [node |-> IF wraps THEN Postfix(whole, WordToken(after[1]))
                  ELSE whole,
         left |-> IF wraps THEN Tail(after) ELSE after]

C20_Expected(ws) ==
    LET r == C20_Reading(ws)
        first == ExpressionStatement(WordToken(ws[1]), r.node)
    IN  IF r.left = <<>>
        THEN ReturnedOk(<<first>>)
        ELSE IF r.left[Len(r.left)] # <<"b">>
        THEN status = "err"
        ELSE ReturnedOk(<<first,
                 ExpressionStatement(
                     WordToken(r.left[1]),
                     C20_Prefixed(SubSeq(r.left, 1, Len(r.left) - 1),
                                  <<"b">>))>>)

\* C20: a postfix operator behind the result of a `-`, `++` or `--` prefix
\* expression becomes a Postfix node around the whole Prefix node; behind
\* the result of a `!` prefix expression it is left for the next statement,
\* and no Postfix node stands directly around a `!` node; `!a--` is
\* (!(a--)).
C20_PostfixAfterPrefix ==
    /\ \A node \in C7_Nodes : ~C20_PostfixOnBang(node)
    /\ Finished =>
          /\ C20_Applies(SourceWords) => C20_Expected(SourceWords)
          /\ SourceWords = <<<<"!">>, <<"a">>, <<"-", "-">>>>
                => OneExpression(
                       <<"!">>,
                       Prefix(Token("Bang", <<"!">>),
                              Postfix(IdentifierExpr(
                                          Token("Identifier", <<"a">>)),
                                      Token("Decrement", <<"-", "-">>))))

\* `- a ++ --` was returned as ((-(a++))--)
C20_Witness ==
    /\ SourceWords = <<<<"-">>, <<"a">>, <<"+", "+">>, <<"-", "-">>>>
    /\ status = "ok"
    /\ result.program.statements[1].expression.kind = "Postfix"
    /\ result.program.statements[1].expression.left.kind = "Prefix"

(***************************************************************************)
(* expect_peek.                                                            *)
(***************************************************************************)
\* the parser one token further on: current is the old peek token and peek
\* is the next token of the lexer
C21_Advanced(q) ==
    [l |-> LexerNext(q.l).l, cur_token |-> q.peek_token,
     peek_token |-> LexerNext(q.l).tok]

\* the lookahead token is there and is of kind t
C21_Matches(q, t) == q.peek_token # None /\ q.peek_token.ttype = t

\* what expect_peek(t) answers in the parser state reached, for the kind of
\* the lookahead token and for the kinds the parser asks for
C21_Kinds ==
    {"Identifier", "Assign", "Eof"}
        \cup (IF p.peek_token = None THEN {} ELSE {p.peek_token.ttype})

C21_Answer ==
    LET advanced == C21_Advanced(p) IN
    \A t \in C21_Kinds :
        LET e == expect_peek(p, t) IN
        IF C21_Matches(p, t)
        THEN e.ok /\ e.p = advanced /\ e.n = 1
        ELSE ~e.ok /\ e.p = p /\ e.n = 0

\* the two calls of expect_peek in parse_let_statement
C21_Calls ==
    [][/\ At("parse_let_statement", "start") =>
             IF C21_Matches(p, "Identifier")
             THEN /\ p' = C21_Advanced(p)
                  /\ pulled' = pulled + 1
                  /\ status' = "running"
             ELSE /\ p' = p
                  /\ pulled' = pulled
                  /\ status' = "err"
                  /\ result'.kind = "Err"
       /\ At("parse_let_statement", "assign") =>
             IF C21_Matches(p, "Assign")
             THEN /\ p' = next_token(C21_Advanced(p))
                  /\ pulled' = pulled + 2
                  /\ status' = "running"
             ELSE /\ p' = p
                  /\ pulled' = pulled
                  /\ status' = "err"
                  /\ result'.kind = "Err"]_vars

\* C21: expect_peek(kind) answers Ok and moves the parser on by exactly one
\* token when the lookahead token is of that kind; when it is of another
\* kind or absent it answers Err and leaves the current token, the peek
\* token and the lexer as they were.
C21_ExpectPeekOnlyOnSuccess ==
    /\ []C21_Answer
    /\ C21_Calls

\* `let x` was followed by a token that is not `=`: the second expect_peek
\* failed after the first had succeeded
C21_Witness ==
    /\ status = "err"
    /\ p.cur_token.ttype = "Identifier"
    /\ p.peek_token # None
    /\ p.peek_token.ttype # "Assign"
    /\ result.message[1] = "expected next token to be"
    /\ result.message[2] = "Assign"

(***************************************************************************)
(* The tokens the productions unwrap.                                      *)
(***************************************************************************)
\* the current token is a token other than Eof and there is no peek token
C22_PeekMissing ==
    /\ p.cur_token # None
    /\ p.cur_token.ttype # "Eof"
    /\ p.peek_token = None

\* the places where a production unwraps the current token
C22_ReadsCurrent ==
    \/ At("parse_expression", "start")
    \/ At("parse_prefix_expression", "start")
    \/ At("parse_infix_expression", "start")
    \/ At("parse_let_statement", "start")
    \/ At("parse_return_statement", "start")
    \/ At("parse_expression_statement", "start")

\* the places where a production unwraps the peek token
C22_ReadsPeek ==
    \/ /\ At("parse_expression", "start")
       /\ p.cur_token.ttype \in {"Identifier", "Integer"}
    \/ /\ At("parse_expression", "prefix")
       /\ prefix_takes_postfix(Top.current.ttype)
    \/ At("parse_expression", "loop") /\ ~peek_token_is(p, "Semicolon")
    \/ At("parse_expression", "body")
    \/ At("parse_prefix_expression", "start")

\* C22: where a production unwraps the current or the peek token the token
\* is present; the current token is never a token other than Eof with the
\* peek token absent; and no call ends in the panic of such an unwrap.
C22_UnwrappedTokensPresent ==
    /\ ~C22_PeekMissing
    /\ C22_ReadsCurrent => p.cur_token # None
    /\ C22_ReadsPeek => p.peek_token # None
    /\ status = "panic" => result.message[1] = "unwrap of parse::<i64>"

\* parse_expression is entered on the Eof token with nothing behind it
C22_Witness ==
    /\ At("parse_expression", "start")
    /\ p.cur_token.ttype = "Eof"
    /\ p.peek_token = None

(***************************************************************************)
(* The characters of the text and the literals of the tokens.              *)
(***************************************************************************)
\* the text without its whitespace characters
RECURSIVE C23_Dense(_)
C23_Dense(text) ==
    IF text = <<>> THEN <<>>
    ELSE IF IsWhitespace(text[1]) THEN C23_Dense(Tail(text))
    ELSE <<text[1]>> \o C23_Dense(Tail(text))

\* the literals of the first n tokens handed out, side by side
C23_Literals(n) == Flatten([i \in 1..n |-> tokens[i].literal])

\* the part of the text the cursor has passed
C23_Scanned ==
    SubSeq(lexer.input, 1,
           IF lexer.position < Len(lexer.input) THEN lexer.position
           ELSE Len(lexer.input))

\* the Eof token for the end of the text has been handed out
C23_AtEnd == lexer.position > Len(lexer.input)

\* C23: the literals of the tokens handed out, the final Eof left out, are
\* with whitespace deleted the text with whitespace deleted: at every point
\* of the scan for the part of the text scanned, and for the whole text
\* once None is answered.
C23_NothingDroppedOrDuplicated ==
    /\ C23_Dense(C23_Literals(IF C23_AtEnd THEN Len(tokens) - 1
                              ELSE Len(tokens)))
          = C23_Dense(C23_Scanned)
    /\ Exhausted => /\ C23_AtEnd
                    /\ C23_Scanned = lexer.input
                    /\ LastToken.ttype = "Eof"

\* a text with whitespace in it that yields a String or an Illegal token
\* among at least three was scanned to its end
C23_Witness ==
    /\ Exhausted
    /\ \E i \in 1..Len(lexer.input) : IsWhitespace(lexer.input[i])
    /\ Len(tokens) >= 3
    /\ \E i \in 1..Len(tokens) : tokens[i].ttype \in {"String", "Illegal"}

====
